---- MODULE Spec2Model ----
(***************************************************************************)
(* Flat-file record stores of the car service application: Customer,       *)
(* Vehicle, ServiceItem, Discount and ServiceHistory.  A file is a         *)
(* sequence of characters; the load/save/next-id functions are modelled    *)
(* on the characters they read and write.                                  *)
(***************************************************************************)
EXTENDS Integers, Sequences, FiniteSets, TLC

\* ------------------------------------------------------------------------
\* Bounds of the model
\* ------------------------------------------------------------------------
\* longest list handed to a save function
MaxLen == 3
\* largest id used in the records handed to a save function
MaxId == 2
\* number of lines of a hand-written file
MaxRawLines == 3
\* largest id an add flow may allocate before the model stops adding
MaxAlloc == 3
\* a list is saved over a missing file, an empty file, or a file holding one
\* of the first MaxRawBeforeSave hand-written lines of the kind
MaxRawBeforeSave == 1

\* the bookings of a run of the menus
MaxBookings == 1

\* ------------------------------------------------------------------------
\* State
\* ------------------------------------------------------------------------
VARIABLES
  store,          \* the kind of record the run works on
  customersFile,  \* customers.txt
  vehiclesFile,   \* vehicles.txt
  servicesFile,   \* services.txt
  discountsFile,  \* discounts.txt
  historyFile,    \* service_history.txt
  input,          \* the list the run hands to the save function
  raw,            \* the hand-written lines the file of the run started with,
                  \* and who wrote the file last ("hand" at the start)
  last,           \* the last call: its name, argument list, returned list,
                  \* id, the file before it and whether that was hand-written
  allocated,      \* the ids the add flows have handed out so far
  aborted,        \* the process was stopped by an overflow trap
  callers         \* the processes that run an add flow on the same files at
                  \* the same time: where each one is, the list it has
                  \* loaded, the id of its record and the rank of its save

vars == <<store, customersFile, vehiclesFile, servicesFile, discountsFile,
          historyFile, input, raw, last, allocated, aborted, callers>>

\* the data file of a kind of record
FileOf(kind) ==
  CASE kind = "customer" -> customersFile
    [] kind = "vehicle"  -> vehiclesFile
    [] kind = "service"  -> servicesFile
    [] kind = "discount" -> discountsFile
    [] kind = "history"  -> historyFile

\* ------------------------------------------------------------------------
\* Machine integers (int is 32 bit)
\* ------------------------------------------------------------------------
INT_MAX == 2147483647
INT_MIN == (0 - 2147483647) - 1

\* ------------------------------------------------------------------------
\* Characters and strings.  A string is a sequence of one-character strings.
\* ------------------------------------------------------------------------
Digits == <<"0", "1", "2", "3", "4", "5", "6", "7", "8", "9">>

IsDigit(c) == \E i \in 1..10 : Digits[i] = c

DigitVal(c) == (CHOOSE i \in 1..10 : Digits[i] = c) - 1

\* std::isspace on the characters the model uses
IsSpace(c) == c = " "

RECURSIVE Pow10(_)
Pow10(n) == IF n <= 0 THEN 1 ELSE 10 * Pow10(n - 1)

\* number of decimal digits of n >= 0 (1 for 0)
RECURSIVE NumDigits(_)
NumDigits(n) == IF n < 10 THEN 1 ELSE 1 + NumDigits(n \div 10)

\* decimal digits of n >= 0
RECURSIVE NatToStr(_)
NatToStr(n) == IF n < 10 THEN <<Digits[n + 1]>>
               ELSE NatToStr(n \div 10) \o <<Digits[(n % 10) + 1]>>

\* operator<<(ostream&, int)
IntToStr(n) ==
  IF n = INT_MIN THEN <<"-", "2", "1", "4", "7", "4", "8", "3", "6", "4", "8">>
  ELSE IF n < 0 THEN <<"-">> \o NatToStr(0 - n)
  ELSE NatToStr(n)

\* index of the first character of s at or after i that is not a space
RECURSIVE SkipSpace(_, _)
SkipSpace(s, i) == IF i <= Len(s) /\ IsSpace(s[i]) THEN SkipSpace(s, i + 1) ELSE i

\* index just after the run of digits of s that starts at i
RECURSIVE DigitsEnd(_, _)
DigitsEnd(s, i) == IF i <= Len(s) /\ IsDigit(s[i]) THEN DigitsEnd(s, i + 1) ELSE i

\* minus the value of the digits s[i..j-1], accumulated the way strtol does;
\* 1 when the magnitude does not fit below INT_MIN
RECURSIVE NegDigitsVal(_, _, _)
NegDigitsVal(s, i, j) ==
  IF j <= i THEN 0
  ELSE LET hi == NegDigitsVal(s, i, j - 1)
           d  == DigitVal(s[j - 1])
       IN  IF hi = 1 THEN 1
           ELSE IF hi < (INT_MIN + d) \div 10 + (IF (INT_MIN + d) % 10 = 0 THEN 0 ELSE 1)
                THEN 1
           ELSE 10 * hi - d

\* index after an optional sign at i
SignEnd(s, i) == IF i <= Len(s) /\ s[i] \in {"+", "-"} THEN i + 1 ELSE i

IsNeg(s, i) == i <= Len(s) /\ s[i] = "-"

\* std::stoi: leading spaces, optional sign, digits; what follows the digits
\* is ignored.  ok = FALSE stands for the exception (invalid_argument when
\* there is no digit, out_of_range when the value does not fit an int).
stoi(s) ==
  LET a == SkipSpace(s, 1)
      b == SignEnd(s, a)
      c == DigitsEnd(s, b)
      n == NegDigitsVal(s, b, c)
  IN  IF c = b THEN [ok |-> FALSE, val |-> 0]
      ELSE IF n = 1 THEN [ok |-> FALSE, val |-> 0]
      ELSE IF IsNeg(s, a) THEN [ok |-> TRUE, val |-> n]
      ELSE IF n = INT_MIN THEN [ok |-> FALSE, val |-> 0]
      ELSE [ok |-> TRUE, val |-> 0 - n]

\* ------------------------------------------------------------------------
\* Decimal numbers.  A double is modelled by the decimal number m * 10^e it
\* holds, kept normal: m has no trailing zero, and zero is m = 0, e = 0.
\* The model only uses values of at most nine significant digits, which a
\* double holds well within its precision.
\* ------------------------------------------------------------------------
Abs(n) == IF n < 0 THEN 0 - n ELSE n

RECURSIVE DecNorm(_, _)
DecNorm(m, e) == IF m = 0 THEN [m |-> 0, e |-> 0]
                 ELSE IF m % 10 = 0 THEN DecNorm(m \div 10, e + 1)
                 ELSE [m |-> m, e |-> e]

\* the whole number n as a decimal
Dec(n) == IF n < 0 THEN LET d == DecNorm(0 - n, 0) IN [m |-> 0 - d.m, e |-> d.e]
          ELSE DecNorm(n, 0)

\* a >= 0 rounded to at most p significant digits, ties to even, as printf
\* rounds the value it prints
RoundSig(a, e, p) ==
  LET nd == NumDigits(a)
  IN  IF nd <= p THEN DecNorm(a, e)
      ELSE LET k    == nd - p
               q    == a \div Pow10(k)
               r    == a % Pow10(k)
               half == 5 * Pow10(k - 1)
               up   == r > half \/ (r = half /\ q % 2 = 1)
           IN  DecNorm(IF up THEN q + 1 ELSE q, e + k)

RECURSIVE Zeros(_)
Zeros(n) == IF n <= 0 THEN <<>> ELSE <<"0">> \o Zeros(n - 1)

\* precision of an ostream that nobody changed
DefaultPrecision == 6

\* operator<<(ostream&, double) with the default flags: printf's %g with
\* precision 6.  Scientific notation when the decimal exponent is below -4
\* or at least the precision, fixed otherwise; trailing zeros are removed.
DoubleToStr(d) ==
  LET r    == RoundSig(Abs(d.m), d.e, DefaultPrecision)
      ds   == NatToStr(r.m)
      n    == Len(ds)
      X    == n - 1 + r.e
      sign == IF d.m < 0 THEN <<"-">> ELSE <<>>
      exps == NatToStr(Abs(X))
      body ==
        IF r.m = 0 THEN <<"0">>
        ELSE IF X < -4 \/ X >= DefaultPrecision
        THEN <<ds[1]>>
             \o (IF n > 1 THEN <<".">> \o SubSeq(ds, 2, n) ELSE <<>>)
             \o <<"e", IF X < 0 THEN "-" ELSE "+">>
             \o (IF Len(exps) < 2 THEN <<"0">> \o exps ELSE exps)
        ELSE IF r.e >= 0 THEN ds \o Zeros(r.e)
        ELSE IF n > 0 - r.e
        THEN SubSeq(ds, 1, n + r.e) \o <<".">> \o SubSeq(ds, n + r.e + 1, n)
        ELSE <<"0", ".">> \o Zeros((0 - r.e) - n) \o ds
  IN  sign \o body

\* std::stod on decimal input: leading spaces, optional sign, digits with an
\* optional point, optional exponent; what follows is ignored.  ok = FALSE
\* stands for the invalid_argument exception (no digit).
stod(s) ==
  LET a     == SkipSpace(s, 1)
      b     == SignEnd(s, a)
      c     == DigitsEnd(s, b)
      point == c <= Len(s) /\ s[c] = "."
      f     == IF point THEN DigitsEnd(s, c + 1) ELSE c
      mant  == SubSeq(s, b, c - 1) \o (IF point THEN SubSeq(s, c + 1, f - 1) ELSE <<>>)
      fracn == IF point THEN f - (c + 1) ELSE 0
      x     == IF f <= Len(s) /\ s[f] \in {"e", "E"} THEN SignEnd(s, f + 1) ELSE f
      y     == DigitsEnd(s, x)
      hasx  == x > f /\ y > x
      ex    == IF ~hasx THEN 0
               ELSE IF IsNeg(s, f + 1) THEN NegDigitsVal(s, x, y)
               ELSE 0 - NegDigitsVal(s, x, y)
      mv    == 0 - NegDigitsVal(mant, 1, Len(mant) + 1)
      v     == DecNorm(mv, ex - fracn)
  IN  IF Len(mant) = 0 THEN [ok |-> FALSE, val |-> Dec(0)]
      ELSE [ok |-> TRUE,
            val |-> IF IsNeg(s, a) THEN [m |-> 0 - v.m, e |-> v.e] ELSE v]

\* ------------------------------------------------------------------------
\* Lines and fields
\* ------------------------------------------------------------------------
\* index of the first delim in s at or after i, Len(s) + 1 when there is none
RECURSIVE FindChar(_, _, _)
FindChar(s, delim, i) == IF i > Len(s) \/ s[i] = delim THEN i
                         ELSE FindChar(s, delim, i + 1)

\* The strings that successive calls of std::getline(stream, str, delim)
\* extract from a stream holding s, up to the call that fails: the pieces
\* between delimiters; nothing is extracted once the end is reached, so a
\* final delimiter is not followed by an empty piece.
RECURSIVE GetLines(_, _)
GetLines(s, delim) ==
  IF Len(s) = 0 THEN <<>>
  ELSE LET k == FindChar(s, delim, 1)
       IN  <<SubSeq(s, 1, k - 1)>> \o GetLines(SubSeq(s, k + 1, Len(s)), delim)

\* the i-th string read into a variable that was empty before: it stays
\* empty when the getline fails
Field(t, i) == IF i <= Len(t) THEN t[i] ELSE <<>>

\* a file: whether it exists, and its characters
NoFile == [exists |-> FALSE, data |-> <<>>]

\* std::ofstream(path, std::ios::trunc) followed by the characters written
Written(data) == [exists |-> TRUE, data |-> data]

\* the lines read when the first line is taken for a header and dropped
FileLinesAfterHeader(f) ==
  LET ls == IF f.exists THEN GetLines(f.data, "\n") ELSE <<>>
  IN  IF Len(ls) = 0 THEN ls ELSE Tail(ls)

\* the lines std::getline reads from std::ifstream(path); a file that cannot
\* be opened gives none
FileLines(f) == IF f.exists THEN GetLines(f.data, "\n") ELSE <<>>

RECURSIVE Concat(_)
Concat(ss) == IF Len(ss) = 0 THEN <<>> ELSE Head(ss) \o Concat(Tail(ss))

\* maxId + 1 on an int: signed overflow is undefined when maxId = INT_MAX;
\* the build either wraps around or traps
IntPlusOne(n) ==
  IF n = INT_MAX THEN {[trap |-> FALSE, val |-> INT_MIN], [trap |-> TRUE, val |-> 0]}
  ELSE {[trap |-> FALSE, val |-> n + 1]}

\* maxId = id without the comparison: the id of the last line wins
LastWith(maxId, idStr) ==
  LET r == stoi(idStr) IN IF r.ok THEN r.val ELSE maxId

\* if (id > maxId) maxId = id, where stoi(idStr) may throw
MaxWith(maxId, idStr) ==
  LET r == stoi(idStr) IN IF r.ok /\ r.val > maxId THEN r.val ELSE maxId

RECURSIVE UniqueByIdLast(_, _)
RECURSIVE UniqueById(_, _)
\* std::map<int, T> filled by "unique[x.id] = x" alone: the last element wins
UniqueByIdLast(list, unique) ==
  IF Len(list) = 0 THEN unique
  ELSE LET x == Head(list)
       IN  UniqueByIdLast(Tail(list),
                          (x.id :> x) @@ unique)

RECURSIVE UniqueByIdAndFields(_, _)
\* a record is also dropped when a kept one agrees with it on every other field
UniqueByIdAndFields(list, unique) ==
  IF Len(list) = 0 THEN unique
  ELSE LET x == Head(list)
       IN  UniqueByIdAndFields(Tail(list),
             IF \/ x.id \in DOMAIN unique
                \/ \E k \in DOMAIN unique : [unique[k] EXCEPT !.id = x.id] = x
             THEN unique ELSE unique @@ (x.id :> x))

\* std::map<int, T> filled by "if (unique.count(x.id) == 0) unique[x.id] = x"
UniqueById(list, unique) ==
  IF Len(list) = 0 THEN unique
  ELSE LET x == Head(list)
       IN  UniqueById(Tail(list),
                      IF x.id \in DOMAIN unique THEN unique ELSE unique @@ (x.id :> x))

EmptyMap == [k \in {} |-> 0]

RECURSIVE MapValuesDescending(_)
RECURSIVE MapValues(_)
\* the values of a std::map<int, T, std::greater<int>>: descending key
MapValuesDescending(m) ==
  IF DOMAIN m = {} THEN <<>>
  ELSE LET k == CHOOSE a \in DOMAIN m : \A b \in DOMAIN m : a >= b
       IN  <<m[k]>> \o MapValuesDescending([j \in DOMAIN m \ {k} |-> m[j]])

\* the values of a std::map in iteration order: ascending key
MapValues(m) ==
  IF DOMAIN m = {} THEN <<>>
  ELSE LET k == CHOOSE a \in DOMAIN m : \A b \in DOMAIN m : a <= b
       IN  <<m[k]>> \o MapValues([j \in DOMAIN m \ {k} |-> m[j]])

\* std::remove_if with "c.id != id": the elements with the id are kept
RemoveIfNot(list, id) == SelectSeq(list, LAMBDA x : x.id = id)

\* std::remove_if with "c.id == id", then erase: the elements of list with
\* another id, in their order
RemoveIf(list, id) == SelectSeq(list, LAMBDA x : x.id # id)

\* ------------------------------------------------------------------------
\* Customer store
\* ------------------------------------------------------------------------
RECURSIVE nextCustomerIdMax(_, _)
nextCustomerIdMax(lines, maxId) ==
  IF Len(lines) = 0 THEN maxId
  ELSE LET t == GetLines(Head(lines), "|")
       IN  nextCustomerIdMax(Tail(lines),
                             IF Len(t) >= 1 THEN MaxWith(maxId, t[1]) ELSE maxId)

\* the number of lines plus one
nextCustomerIdCount(f) == IntPlusOne(Len(FileLines(f)))

\* nextCustomerId(): maxId + 1 over the lines of the file
nextCustomerId(f) == IntPlusOne(nextCustomerIdMax(FileLines(f), 0))

RECURSIVE loadCustomersUntilBad(_)
RECURSIVE loadCustomersFrom(_)
\* the loop with "break" in place of "continue": it stops at the first line
\* that does not decode
loadCustomersUntilBad(lines) ==
  IF Len(lines) = 0 THEN <<>>
  ELSE LET line == Head(lines)
           t    == GetLines(line, "|")
           rest == loadCustomersUntilBad(Tail(lines))
       IN  IF Len(line) = 0 THEN rest
           ELSE IF Len(t) = 0 THEN rest
           ELSE IF ~stoi(t[1]).ok THEN <<>>
           ELSE <<[id |-> stoi(t[1]).val, name |-> Field(t, 2),
                   phone |-> Field(t, 3), email |-> Field(t, 4)]>> \o rest

loadCustomersFrom(lines) ==
  IF Len(lines) = 0 THEN <<>>
  ELSE LET line == Head(lines)
           t    == GetLines(line, "|")
           rest == loadCustomersFrom(Tail(lines))
       IN  IF Len(line) = 0 THEN rest
           ELSE IF Len(t) = 0 THEN rest
           ELSE IF ~stoi(t[1]).ok THEN rest
           ELSE <<[id |-> stoi(t[1]).val, name |-> Field(t, 2),
                   phone |-> Field(t, 3), email |-> Field(t, 4)]>> \o rest

loadCustomers(f) == loadCustomersFrom(FileLines(f))

\* the line with email written before phone
CustomerLineSwapped(c) ==
  IntToStr(c.id) \o <<"|">> \o c.name \o <<"|">> \o c.email \o <<"|">> \o c.phone \o <<"\n">>

\* ofs << c.id << '|' << c.name << '|' << c.phone << '|' << c.email << '\n'
CustomerLine(c) ==
  IntToStr(c.id) \o <<"|">> \o c.name \o <<"|">> \o c.phone \o <<"|">> \o c.email \o <<"\n">>

saveCustomers(list) ==
  LET unique == UniqueById(list, EmptyMap)
      vals   == MapValues(unique)
  IN  Written(Concat([i \in 1..Len(vals) |-> CustomerLine(vals[i])]))

\* the loop shared, word for word, by nextVehicleId, nextServiceId,
\* nextDiscountId and nextHistoryId: empty lines are skipped, the first field
\* is read and parsed
RECURSIVE nextIdMax(_, _)
nextIdMax(lines, maxId) ==
  IF Len(lines) = 0 THEN maxId
  ELSE LET ln == Head(lines)
       IN  nextIdMax(Tail(lines),
                     IF Len(ln) = 0 THEN maxId
                     ELSE MaxWith(maxId, Field(GetLines(ln, "|"), 1)))

\* ------------------------------------------------------------------------
\* Vehicle store
\* ------------------------------------------------------------------------
nextVehicleId(f) == IntPlusOne(nextIdMax(FileLines(f), 0))

RECURSIVE loadVehiclesComplete(_)
RECURSIVE loadVehiclesFrom(_)
\* the loop that also rejects a line with fewer than five fields
loadVehiclesComplete(lines) ==
  IF Len(lines) = 0 THEN <<>>
  ELSE LET line == Head(lines)
           t    == GetLines(line, "|")
           rest == loadVehiclesComplete(Tail(lines))
       IN  IF Len(line) = 0 THEN rest
           ELSE IF Len(t) < 5 THEN rest
           ELSE IF ~stoi(t[1]).ok THEN rest
           ELSE IF ~stoi(Field(t, 2)).ok THEN rest
           ELSE <<[id |-> stoi(t[1]).val, customerId |-> stoi(Field(t, 2)).val,
                   regNo |-> Field(t, 3), model |-> Field(t, 4),
                   color |-> Field(t, 5)]>> \o rest

loadVehiclesFrom(lines) ==
  IF Len(lines) = 0 THEN <<>>
  ELSE LET line == Head(lines)
           t    == GetLines(line, "|")
           rest == loadVehiclesFrom(Tail(lines))
       IN  IF Len(line) = 0 THEN rest
           ELSE IF Len(t) = 0 THEN rest
           ELSE IF ~stoi(t[1]).ok THEN rest
           ELSE IF ~stoi(Field(t, 2)).ok THEN rest
           ELSE <<[id |-> stoi(t[1]).val, customerId |-> stoi(Field(t, 2)).val,
                   regNo |-> Field(t, 3), model |-> Field(t, 4),
                   color |-> Field(t, 5)]>> \o rest

loadVehicles(f) == loadVehiclesFrom(FileLines(f))

VehicleLine(v) ==
  IntToStr(v.id) \o <<"|">> \o IntToStr(v.customerId) \o <<"|">> \o v.regNo
  \o <<"|">> \o v.model \o <<"|">> \o v.color \o <<"\n">>

saveVehicles(list) ==
  LET unique == UniqueById(list, EmptyMap)
      vals   == MapValues(unique)
  IN  Written(Concat([i \in 1..Len(vals) |-> VehicleLine(vals[i])]))

\* ------------------------------------------------------------------------
\* ServiceItem store
\* ------------------------------------------------------------------------
nextServiceId(f) == IntPlusOne(nextIdMax(FileLines(f), 0))

RECURSIVE loadServicesFrom(_)
loadServicesFrom(lines) ==
  IF Len(lines) = 0 THEN <<>>
  ELSE LET line == Head(lines)
           t    == GetLines(line, "|")
           rest == loadServicesFrom(Tail(lines))
       IN  IF Len(line) = 0 THEN rest
           ELSE IF Len(t) = 0 THEN rest
           ELSE IF ~stoi(t[1]).ok THEN rest
           ELSE IF ~stod(Field(t, 3)).ok THEN rest
           ELSE <<[id |-> stoi(t[1]).val, name |-> Field(t, 2),
                   price |-> stod(Field(t, 3)).val]>> \o rest

loadServices(f) == loadServicesFrom(FileLines(f))

ServiceLine(x) ==
  IntToStr(x.id) \o <<"|">> \o x.name \o <<"|">> \o DoubleToStr(x.price) \o <<"\n">>

saveServices(list) ==
  LET unique == UniqueById(list, EmptyMap)
      vals   == MapValues(unique)
  IN  Written(Concat([i \in 1..Len(vals) |-> ServiceLine(vals[i])]))

\* ------------------------------------------------------------------------
\* Discount store
\* ------------------------------------------------------------------------
nextDiscountId(f) == IntPlusOne(nextIdMax(FileLines(f), 0))

RECURSIVE loadDiscountsFrom(_)
loadDiscountsFrom(lines) ==
  IF Len(lines) = 0 THEN <<>>
  ELSE LET line == Head(lines)
           t    == GetLines(line, "|")
           rest == loadDiscountsFrom(Tail(lines))
       IN  IF Len(line) = 0 THEN rest
           ELSE IF Len(t) = 0 THEN rest
           ELSE IF ~stoi(t[1]).ok THEN rest
           ELSE IF ~stod(Field(t, 3)).ok THEN rest
           ELSE <<[id |-> stoi(t[1]).val, name |-> Field(t, 2),
                   percent |-> stod(Field(t, 3)).val,
                   note |-> Field(t, 4)]>> \o rest

loadDiscounts(f) == loadDiscountsFrom(FileLines(f))

DiscountLine(d) ==
  IntToStr(d.id) \o <<"|">> \o d.name \o <<"|">> \o DoubleToStr(d.percent)
  \o <<"|">> \o d.note \o <<"\n">>

saveDiscounts(list) ==
  LET unique == UniqueById(list, EmptyMap)
      vals   == MapValues(unique)
  IN  Written(Concat([i \in 1..Len(vals) |-> DiscountLine(vals[i])]))

\* ------------------------------------------------------------------------
\* ServiceHistory store
\* ------------------------------------------------------------------------
\* the id after an unread file: maxId stays 0
nextHistoryIdUnread(f) == IntPlusOne(0)

\* nextHistoryId(): the largest historyId of the file, plus one
nextHistoryId(f) == IntPlusOne(nextIdMax(FileLines(f), 0))

\* one more id in front of the ids parsed: r is what stoi made of the token
ConsId(r, rest) ==
  IF ~r.ok \/ ~rest.ok THEN [ok |-> FALSE, val |-> <<>>]
  ELSE [ok |-> TRUE, val |-> <<r.val>> \o rest.val]

\* the serviceIds slot: the pieces between commas, the empty ones dropped,
\* each parsed by stoi; ok = FALSE when one of them makes stoi throw
RECURSIVE ParseServiceIds(_)
ParseServiceIds(tokens) ==
  IF Len(tokens) = 0 THEN [ok |-> TRUE, val |-> <<>>]
  ELSE IF Len(Head(tokens)) = 0 THEN ParseServiceIds(Tail(tokens))
  ELSE ConsId(stoi(Head(tokens)), ParseServiceIds(Tail(tokens)))

\* The first three fields are read into the same string sid: a getline that
\* fails at the end of the line leaves the previous field in it.
RECURSIVE Sid(_, _)
Sid(t, i) == IF i <= Len(t) THEN t[i]
             ELSE IF i = 1 THEN <<>>
             ELSE Sid(t, i - 1)

\* the entry of a line, from its fields and what stoi and stod made of them
HistoryParsed(t, hid, cid, vid, ids, subtotal, did, pct, total) ==
  IF ~(/\ hid.ok /\ cid.ok /\ vid.ok /\ ids.ok
       /\ subtotal.ok /\ did.ok /\ pct.ok /\ total.ok)
  THEN [ok |-> FALSE, val |-> <<>>]
  ELSE [ok |-> TRUE,
        val |-> [historyId |-> hid.val, customerId |-> cid.val,
                 vehicleId |-> vid.val, serviceIds |-> ids.val,
                 dateTime |-> Field(t, 5), subtotal |-> subtotal.val,
                 discountId |-> did.val, discountPercent |-> pct.val,
                 total |-> total.val, status |-> Field(t, 10)]]

\* the entry of a line split at '|'
HistoryOfFields(t) ==
  HistoryParsed(t, stoi(Sid(t, 1)), stoi(Sid(t, 2)), stoi(Sid(t, 3)),
                ParseServiceIds(GetLines(Field(t, 4), ",")),
                stod(Field(t, 6)), stoi(Field(t, 7)),
                stod(Field(t, 8)), stod(Field(t, 9)))

\* One line of the history file.
HistoryOfLine(ln) == HistoryOfFields(GetLines(ln, "|"))

\* the record of a line that was not skipped
Kept(r) == IF r.ok THEN <<r.val>> ELSE <<>>

RECURSIVE loadHistoryFrom(_)
loadHistoryFrom(lines) ==
  IF Len(lines) = 0 THEN <<>>
  ELSE IF Len(Head(lines)) = 0 THEN loadHistoryFrom(Tail(lines))
  ELSE Kept(HistoryOfLine(Head(lines))) \o loadHistoryFrom(Tail(lines))

loadHistory(f) == loadHistoryFrom(FileLines(f))

\* the ids written one after the other, without the commas
RECURSIVE ServiceIdsToStrNoComma(_, _)
ServiceIdsToStrNoComma(serviceIds, i) ==
  IF i > Len(serviceIds) THEN <<>>
  ELSE IntToStr(serviceIds[i]) \o ServiceIdsToStrNoComma(serviceIds, i + 1)

RECURSIVE ServiceIdsToStr(_, _)
ServiceIdsToStr(serviceIds, i) ==
  IF i > Len(serviceIds) THEN <<>>
  ELSE (IF i > 1 THEN <<",">> ELSE <<>>) \o IntToStr(serviceIds[i])
       \o ServiceIdsToStr(serviceIds, i + 1)

HistoryLine(h) ==
  IntToStr(h.historyId) \o <<"|">> \o IntToStr(h.customerId) \o <<"|">>
  \o IntToStr(h.vehicleId) \o <<"|">> \o ServiceIdsToStr(h.serviceIds, 1)
  \o <<"|">> \o h.dateTime \o <<"|">> \o DoubleToStr(h.subtotal)
  \o <<"|">> \o IntToStr(h.discountId) \o <<"|">> \o DoubleToStr(h.discountPercent)
  \o <<"|">> \o DoubleToStr(h.total) \o <<"|">> \o h.status \o <<"\n">>

\* saveHistory writes the list as it is: no map, no deduplication, no sort
saveHistory(list) ==
  Written(Concat([i \in 1..Len(list) |-> HistoryLine(list[i])]))

\* ------------------------------------------------------------------------
\* Hand-written files.  Each entry is a line of text as a test or a user
\* writes it into a data file, with the record the line stands for (ok =
\* FALSE: the line is blank or malformed and stands for none) and the number
\* its first field holds (idok = FALSE: none).
\* ------------------------------------------------------------------------
CustomerRawLines ==
  <<
     [text |-> <<"1", "|", "J", "o", "|", "9", "|", "a">>,
      ok |-> TRUE, rec |-> [id |-> 1, name |-> <<"J", "o">>, phone |-> <<"9">>, email |-> <<"a">>],
      idok |-> TRUE, id |-> 1],
     [text |-> <<"2", "|", "|", "9", "|", "a">>,
      ok |-> TRUE, rec |-> [id |-> 2, name |-> <<>>, phone |-> <<"9">>, email |-> <<"a">>],
      idok |-> TRUE, id |-> 2],
     [text |-> <<"b", "a", "d", "|", "d">>,
      ok |-> FALSE, rec |-> [id |-> 0, name |-> <<>>, phone |-> <<>>, email |-> <<>>],
      idok |-> FALSE, id |-> 0],
     [text |-> <<>>,
      ok |-> FALSE, rec |-> [id |-> 0, name |-> <<>>, phone |-> <<>>, email |-> <<>>],
      idok |-> FALSE, id |-> 0],
     [text |-> <<"3">>,
      ok |-> TRUE, rec |-> [id |-> 3, name |-> <<>>, phone |-> <<>>, email |-> <<>>],
      idok |-> TRUE, id |-> 3],
     [text |-> <<" ", "-", "1", "x", "|", "J", "o", "|", "9", "|", "a", "|", "k">>,
      ok |-> TRUE, rec |-> [id |-> -1, name |-> <<"J", "o">>, phone |-> <<"9">>, email |-> <<"a">>],
      idok |-> TRUE, id |-> -1],
     [text |-> <<"9", "9", "9", "9", "9", "9", "9", "9", "9", "9", "|", "J", "o">>,
      ok |-> FALSE, rec |-> [id |-> 0, name |-> <<>>, phone |-> <<>>, email |-> <<>>],
      idok |-> FALSE, id |-> 0],
     [text |-> <<"2", "1", "4", "7", "4", "8", "3", "6", "4", "7", "|", "J", "o", "|", "9", "|", "a">>,
      ok |-> TRUE, rec |-> [id |-> 2147483647, name |-> <<"J", "o">>, phone |-> <<"9">>, email |-> <<"a">>],
      idok |-> TRUE, id |-> 2147483647]
  >>

VehicleRawLines ==
  <<
     [text |-> <<"1", "|", "1", "|", "R", "|", "M", "|", "c">>,
      ok |-> TRUE, rec |-> [id |-> 1, customerId |-> 1, regNo |-> <<"R">>, model |-> <<"M">>, color |-> <<"c">>],
      idok |-> TRUE, id |-> 1],
     [text |-> <<"-", "1", "|", "1", "|", "|", "M", "|">>,
      ok |-> TRUE, rec |-> [id |-> -1, customerId |-> 1, regNo |-> <<>>, model |-> <<"M">>, color |-> <<>>],
      idok |-> TRUE, id |-> -1],
     [text |-> <<"b", "a", "d", "|", "d">>,
      ok |-> FALSE, rec |-> [id |-> 0, customerId |-> 0, regNo |-> <<>>, model |-> <<>>, color |-> <<>>],
      idok |-> FALSE, id |-> 0],
     [text |-> <<>>,
      ok |-> FALSE, rec |-> [id |-> 0, customerId |-> 0, regNo |-> <<>>, model |-> <<>>, color |-> <<>>],
      idok |-> FALSE, id |-> 0],
     [text |-> <<"3">>,
      ok |-> FALSE, rec |-> [id |-> 0, customerId |-> 0, regNo |-> <<>>, model |-> <<>>, color |-> <<>>],
      idok |-> TRUE, id |-> 3],
     [text |-> <<"3", "|", "2">>,
      ok |-> TRUE, rec |-> [id |-> 3, customerId |-> 2, regNo |-> <<>>, model |-> <<>>, color |-> <<>>],
      idok |-> TRUE, id |-> 3],
     [text |-> <<"3", "|", "x">>,
      ok |-> FALSE, rec |-> [id |-> 0, customerId |-> 0, regNo |-> <<>>, model |-> <<>>, color |-> <<>>],
      idok |-> TRUE, id |-> 3],
     [text |-> <<"2", "1", "4", "7", "4", "8", "3", "6", "4", "7", "|", "1", "|", "R", "|", "M", "|", "c">>,
      ok |-> TRUE, rec |-> [id |-> 2147483647, customerId |-> 1, regNo |-> <<"R">>, model |-> <<"M">>, color |-> <<"c">>],
      idok |-> TRUE, id |-> 2147483647]
  >>

ServiceRawLines ==
  <<
     [text |-> <<"1", "|", "J", "o", "|", "1", "2", "0", "0">>,
      ok |-> TRUE, rec |-> [id |-> 1, name |-> <<"J", "o">>, price |-> [m |-> 12, e |-> 2]],
      idok |-> TRUE, id |-> 1],
     [text |-> <<"2", "|", "|", "0", ".", "5">>,
      ok |-> TRUE, rec |-> [id |-> 2, name |-> <<>>, price |-> [m |-> 5, e |-> -1]],
      idok |-> TRUE, id |-> 2],
     [text |-> <<"b", "a", "d", "|", "d">>,
      ok |-> FALSE, rec |-> [id |-> 0, name |-> <<>>, price |-> [m |-> 0, e |-> 0]],
      idok |-> FALSE, id |-> 0],
     [text |-> <<>>,
      ok |-> FALSE, rec |-> [id |-> 0, name |-> <<>>, price |-> [m |-> 0, e |-> 0]],
      idok |-> FALSE, id |-> 0],
     [text |-> <<"3", "|", "J", "o">>,
      ok |-> FALSE, rec |-> [id |-> 0, name |-> <<>>, price |-> [m |-> 0, e |-> 0]],
      idok |-> TRUE, id |-> 3],
     [text |-> <<"1", "|", "J", "o", "|", "a", "b">>,
      ok |-> FALSE, rec |-> [id |-> 0, name |-> <<>>, price |-> [m |-> 0, e |-> 0]],
      idok |-> TRUE, id |-> 1],
     [text |-> <<"-", "1", "|", "J", "o", "|", "1", "2", "3", "4", "5", "6", "7", "|", "k">>,
      ok |-> TRUE, rec |-> [id |-> -1, name |-> <<"J", "o">>, price |-> [m |-> 1234567, e |-> 0]],
      idok |-> TRUE, id |-> -1],
     [text |-> <<"2", "1", "4", "7", "4", "8", "3", "6", "4", "7", "|", "J", "o", "|", "5">>,
      ok |-> TRUE, rec |-> [id |-> 2147483647, name |-> <<"J", "o">>, price |-> [m |-> 5, e |-> 0]],
      idok |-> TRUE, id |-> 2147483647]
  >>

DiscountRawLines ==
  <<
     [text |-> <<"1", "|", "J", "o", "|", "1", "0", "|", "n">>,
      ok |-> TRUE, rec |-> [id |-> 1, name |-> <<"J", "o">>, percent |-> [m |-> 1, e |-> 1], note |-> <<"n">>],
      idok |-> TRUE, id |-> 1],
     [text |-> <<"2", "|", "|", "0", "|">>,
      ok |-> TRUE, rec |-> [id |-> 2, name |-> <<>>, percent |-> [m |-> 0, e |-> 0], note |-> <<>>],
      idok |-> TRUE, id |-> 2],
     [text |-> <<"b", "a", "d", "|", "d">>,
      ok |-> FALSE, rec |-> [id |-> 0, name |-> <<>>, percent |-> [m |-> 0, e |-> 0], note |-> <<>>],
      idok |-> FALSE, id |-> 0],
     [text |-> <<>>,
      ok |-> FALSE, rec |-> [id |-> 0, name |-> <<>>, percent |-> [m |-> 0, e |-> 0], note |-> <<>>],
      idok |-> FALSE, id |-> 0],
     [text |-> <<"3", "|", "J", "o", "|", "1", "5">>,
      ok |-> TRUE, rec |-> [id |-> 3, name |-> <<"J", "o">>, percent |-> [m |-> 15, e |-> 0], note |-> <<>>],
      idok |-> TRUE, id |-> 3],
     [text |-> <<"3", "|", "J", "o">>,
      ok |-> FALSE, rec |-> [id |-> 0, name |-> <<>>, percent |-> [m |-> 0, e |-> 0], note |-> <<>>],
      idok |-> TRUE, id |-> 3],
     [text |-> <<"-", "1", "|", "J", "o", "|", "1", "2", ".", "3", "4", "5", "6", "7", "8", "9", "|", "n", "|", "k">>,
      ok |-> TRUE, rec |-> [id |-> -1, name |-> <<"J", "o">>, percent |-> [m |-> 123456789, e |-> -7], note |-> <<"n">>],
      idok |-> TRUE, id |-> -1],
     [text |-> <<"2", "1", "4", "7", "4", "8", "3", "6", "4", "7", "|", "J", "o", "|", "5", "|", "n">>,
      ok |-> TRUE, rec |-> [id |-> 2147483647, name |-> <<"J", "o">>, percent |-> [m |-> 5, e |-> 0], note |-> <<"n">>],
      idok |-> TRUE, id |-> 2147483647]
  >>

HistoryRawLines ==
  <<
     [text |-> <<"1", "|", "1", "|", "1", "|", "1", ",", "2", "|", "1", "0", " ", "9", "|", "2", "0", "0", "0", "|", "-", "1", "|", "0", "|", "2", "0", "0", "0", "|", "P", "e", "n", "d", "i", "n", "g">>,
      ok |-> TRUE, rec |-> [historyId |-> 1, customerId |-> 1, vehicleId |-> 1, serviceIds |-> <<1, 2>>,
        dateTime |-> <<"1", "0", " ", "9">>, subtotal |-> [m |-> 2, e |-> 3], discountId |-> -1,
        discountPercent |-> [m |-> 0, e |-> 0], total |-> [m |-> 2, e |-> 3], status |-> <<"P", "e", "n", "d", "i", "n", "g">>],
      idok |-> TRUE, id |-> 1],
     [text |-> <<"2", "|", "1", "|", "1", "|", "|", "1", "0", " ", "9", "|", "0", "|", "-", "1", "|", "0", "|", "0", "|", "C", "o", "m", "p", "l", "e", "t", "e", "d">>,
      ok |-> TRUE, rec |-> [historyId |-> 2, customerId |-> 1, vehicleId |-> 1, serviceIds |-> <<>>,
        dateTime |-> <<"1", "0", " ", "9">>, subtotal |-> [m |-> 0, e |-> 0], discountId |-> -1,
        discountPercent |-> [m |-> 0, e |-> 0], total |-> [m |-> 0, e |-> 0], status |-> <<"C", "o", "m", "p", "l", "e", "t", "e", "d">>],
      idok |-> TRUE, id |-> 2],
     [text |-> <<"b", "a", "d", "|", "d">>,
      ok |-> FALSE, rec |-> [historyId |-> 0, customerId |-> 0, vehicleId |-> 0, serviceIds |-> <<>>,
        dateTime |-> <<>>, subtotal |-> [m |-> 0, e |-> 0], discountId |-> 0,
        discountPercent |-> [m |-> 0, e |-> 0], total |-> [m |-> 0, e |-> 0], status |-> <<>>],
      idok |-> FALSE, id |-> 0],
     [text |-> <<>>,
      ok |-> FALSE, rec |-> [historyId |-> 0, customerId |-> 0, vehicleId |-> 0, serviceIds |-> <<>>,
        dateTime |-> <<>>, subtotal |-> [m |-> 0, e |-> 0], discountId |-> 0,
        discountPercent |-> [m |-> 0, e |-> 0], total |-> [m |-> 0, e |-> 0], status |-> <<>>],
      idok |-> FALSE, id |-> 0],
     [text |-> <<"3", "|", "1", "|", "1", "|", "1", ",", "a", "|", "1", "0", " ", "9", "|", "5", "|", "-", "1", "|", "0", "|", "5", "|", "P", "e", "n", "d", "i", "n", "g">>,
      ok |-> FALSE, rec |-> [historyId |-> 0, customerId |-> 0, vehicleId |-> 0, serviceIds |-> <<>>,
        dateTime |-> <<>>, subtotal |-> [m |-> 0, e |-> 0], discountId |-> 0,
        discountPercent |-> [m |-> 0, e |-> 0], total |-> [m |-> 0, e |-> 0], status |-> <<>>],
      idok |-> TRUE, id |-> 3],
     [text |-> <<"1", "|", "1", "|", "1", "|", ",", "2", "|", "1", "0", " ", "9", "|", "5", "|", "-", "1", "|", "0", "|", "5">>,
      ok |-> TRUE, rec |-> [historyId |-> 1, customerId |-> 1, vehicleId |-> 1, serviceIds |-> <<2>>,
        dateTime |-> <<"1", "0", " ", "9">>, subtotal |-> [m |-> 5, e |-> 0], discountId |-> -1,
        discountPercent |-> [m |-> 0, e |-> 0], total |-> [m |-> 5, e |-> 0], status |-> <<>>],
      idok |-> TRUE, id |-> 1],
     [text |-> <<"3", "|", "1">>,
      ok |-> FALSE, rec |-> [historyId |-> 0, customerId |-> 0, vehicleId |-> 0, serviceIds |-> <<>>,
        dateTime |-> <<>>, subtotal |-> [m |-> 0, e |-> 0], discountId |-> 0,
        discountPercent |-> [m |-> 0, e |-> 0], total |-> [m |-> 0, e |-> 0], status |-> <<>>],
      idok |-> TRUE, id |-> 3],
     [text |-> <<"2", "1", "4", "7", "4", "8", "3", "6", "4", "7", "|", "1", "|", "1", "|", "1", "|", "1", "0", " ", "9", "|", "5", "|", "-", "1", "|", "0", "|", "5", "|", "P", "e", "n", "d", "i", "n", "g">>,
      ok |-> TRUE, rec |-> [historyId |-> 2147483647, customerId |-> 1, vehicleId |-> 1, serviceIds |-> <<1>>,
        dateTime |-> <<"1", "0", " ", "9">>, subtotal |-> [m |-> 5, e |-> 0], discountId |-> -1,
        discountPercent |-> [m |-> 0, e |-> 0], total |-> [m |-> 5, e |-> 0], status |-> <<"P", "e", "n", "d", "i", "n", "g">>],
      idok |-> TRUE, id |-> 2147483647]
  >>

Kinds == {"customer", "vehicle", "service", "discount", "history"}

RawLines(kind) ==
  CASE kind = "customer" -> CustomerRawLines
    [] kind = "vehicle"  -> VehicleRawLines
    [] kind = "service"  -> ServiceRawLines
    [] kind = "discount" -> DiscountRawLines
    [] kind = "history"  -> HistoryRawLines

\* the hand-written files of a kind of up to n lines: sequences of indexes
\* into its list of lines
RawSeqs(kind, n) ==
  UNION {[1..k -> 1..Len(RawLines(kind))] : k \in 0..n}

\* the characters of a hand-written file; nl = FALSE leaves the last line
\* without its newline
RawData(kind, lines, nl) ==
  LET all == Concat([i \in 1..Len(lines) |-> RawLines(kind)[lines[i]].text \o <<"\n">>])
  IN  IF nl \/ Len(all) = 0 THEN all ELSE SubSeq(all, 1, Len(all) - 1)

\* ------------------------------------------------------------------------
\* Records handed to the save functions and typed into the prompts.
\* Strings hold no newline: std::getline cannot read one.
\* ------------------------------------------------------------------------
Jo == <<"J", "o">>

Piped == <<"a", "|", "b">>

Pending == <<"P", "e", "n", "d", "i", "n", "g">>

Completed == <<"C", "o", "m", "p", "l", "e", "t", "e", "d">>

Stamp == <<"1", "0", " ", "9">>

CustomerRecs ==
  {[id |-> i, name |-> Jo, phone |-> <<"9">>, email |-> <<"a">>] : i \in 1..MaxId}
  \cup {[id |-> 1, name |-> <<>>, phone |-> <<"9">>, email |-> <<>>],
        [id |-> -1, name |-> Jo, phone |-> <<"9">>, email |-> <<"a">>],
        [id |-> MaxId, name |-> Piped, phone |-> <<"9">>, email |-> <<"a">>]}

VehicleRecs ==
  {[id |-> i, customerId |-> 1, regNo |-> <<"R">>, model |-> <<"M">>, color |-> <<"c">>] :
     i \in 1..MaxId}
  \cup {[id |-> 1, customerId |-> 2, regNo |-> <<"R">>, model |-> <<>>, color |-> <<>>],
        [id |-> -1, customerId |-> 1, regNo |-> <<"R">>, model |-> <<"M">>, color |-> <<"c">>],
        [id |-> MaxId, customerId |-> -1, regNo |-> Piped, model |-> <<"M">>,
         color |-> <<"c">>]}

ServiceRecs ==
  {[id |-> i, name |-> Jo, price |-> Dec(1200)] : i \in 1..MaxId}
  \cup {[id |-> 1, name |-> <<>>, price |-> Dec(0)],
        [id |-> -1, name |-> Jo, price |-> Dec(1234567)],
        [id |-> MaxId, name |-> Piped, price |-> [m |-> 5, e |-> -1]]}

DiscountRecs ==
  {[id |-> i, name |-> Jo, percent |-> Dec(10), note |-> <<"n">>] : i \in 1..MaxId}
  \cup {[id |-> 1, name |-> <<>>, percent |-> Dec(0), note |-> <<>>],
        [id |-> -1, name |-> Jo, percent |-> [m |-> 123456789, e |-> -7], note |-> <<"n">>],
        [id |-> MaxId, name |-> Jo, percent |-> [m |-> 125, e |-> -1], note |-> Piped]}

HistoryRecs ==
  {[historyId |-> i, customerId |-> 1, vehicleId |-> 1, serviceIds |-> <<1, 2>>,
    dateTime |-> Stamp, subtotal |-> Dec(2000), discountId |-> -1,
    discountPercent |-> Dec(0), total |-> Dec(2000), status |-> Pending] : i \in 1..MaxId}
  \cup {[historyId |-> 1, customerId |-> 1, vehicleId |-> 1, serviceIds |-> <<>>,
         dateTime |-> Stamp, subtotal |-> Dec(0), discountId |-> -1,
         discountPercent |-> Dec(0), total |-> Dec(0), status |-> Completed],
        [historyId |-> -1, customerId |-> 2, vehicleId |-> 1, serviceIds |-> <<1>>,
         dateTime |-> <<>>, subtotal |-> Dec(1234567), discountId |-> 1,
         discountPercent |-> Dec(10), total |-> [m |-> 11111103, e |-> -1],
         status |-> Pending],
        [historyId |-> MaxId, customerId |-> 1, vehicleId |-> 1, serviceIds |-> <<2>>,
         dateTime |-> Piped, subtotal |-> Dec(500), discountId |-> 1,
         discountPercent |-> Dec(10), total |-> Dec(450), status |-> Pending]}

RecsOf(kind) ==
  CASE kind = "customer" -> CustomerRecs
    [] kind = "vehicle"  -> VehicleRecs
    [] kind = "service"  -> ServiceRecs
    [] kind = "discount" -> DiscountRecs
    [] kind = "history"  -> HistoryRecs

\* the lists of at most MaxLen elements of S
ListsOf(S) == UNION {[1..n -> S] : n \in 0..MaxLen}

\* what the user types at a string prompt
Names == {<<>>, Jo, Piped}

\* what the user types at a price or percent prompt
Amounts == {Dec(0), Dec(1200), [m |-> 5, e |-> -1]}

\* what the user types at an id prompt
InputIds == (-1)..MaxAlloc

\* p >= 0 on a double
DecGE0(d) == d.m >= 0

\* The flow works on the store of the run; the menu of the whole application
\* (store = "menu") has the flows of every store.
Focus(kind) == store = "menu" \/ store = kind

\* the ids handed out so far, with one more
Allocated(id) == IF raw.by = "app" THEN allocated ELSE allocated \cup {id}

\* The record of the last call.  The runs of the whole application
\* (raw.by = "app") keep no record.
Called(op, arg, ret, id) ==
  IF raw.by = "app"
  THEN last
  ELSE [op |-> op, arg |-> arg, ret |-> ret, id |-> id,
        pre |-> FileOf(store), hand |-> raw.by = "hand"]

\* the file has been rewritten by the function named by
Rewritten(by) ==
  IF raw.by = "app" THEN raw
  ELSE [by |-> by, exists |-> TRUE, nl |-> TRUE, lines |-> <<>>]

\* Every data file is missing, except the one of the run: it is missing, or
\* holds hand-written lines.  A run that saves a list starts from a file of
\* at most one line, one of the first MaxRawBeforeSave of the kind.
Init ==
  /\ store \in Kinds
  /\ \E exists \in BOOLEAN, nl \in BOOLEAN :
       \E lines \in (IF exists THEN RawSeqs(store, MaxRawLines) ELSE {<<>>}) :
         /\ exists \/ nl
         /\ nl \/ Len(lines) > 0
         /\ raw = [by |-> "hand", exists |-> exists, nl |-> nl, lines |-> lines]
         /\ input \in (IF nl /\ Len(lines) <= 1
                          /\ \A i \in 1..Len(lines) : lines[i] <= MaxRawBeforeSave
                       THEN ListsOf(RecsOf(store)) ELSE {<<>>})
         /\ LET f == IF exists THEN Written(RawData(store, lines, nl)) ELSE NoFile
            IN  /\ customersFile = (IF store = "customer" THEN f ELSE NoFile)
                /\ vehiclesFile = (IF store = "vehicle" THEN f ELSE NoFile)
                /\ servicesFile = (IF store = "service" THEN f ELSE NoFile)
                /\ discountsFile = (IF store = "discount" THEN f ELSE NoFile)
                /\ historyFile = (IF store = "history" THEN f ELSE NoFile)
  /\ last = [op |-> "init", arg |-> <<>>, ret |-> <<>>, id |-> 0,
             pre |-> NoFile, hand |-> TRUE]
  /\ allocated = {}
  /\ aborted = FALSE
  /\ callers = <<>>

\* ------------------------------------------------------------------------
\* Calls of the store functions, as the tests and the menus make them
\* ------------------------------------------------------------------------

\* the load through a stream opened for appending too, which creates a
\* missing file
Call_loadCustomersCreating ==
  /\ store = "customer" /\ ~aborted
  /\ last' = Called("load", <<>>, loadCustomers(customersFile), 0)
  /\ customersFile' = IF customersFile.exists THEN customersFile ELSE Written(<<>>)
  /\ UNCHANGED <<store, callers, vehiclesFile, servicesFile, discountsFile, historyFile, input, raw, allocated, aborted>>


Call_loadCustomers ==
  /\ store = "customer" /\ ~aborted
  /\ last' = Called("load", <<>>, loadCustomers(customersFile), 0)
  /\ UNCHANGED <<store, callers, customersFile, vehiclesFile, servicesFile, discountsFile, historyFile, input, raw, allocated, aborted>>

Call_nextCustomerId ==
  /\ store = "customer" /\ ~aborted
  /\ \E o \in nextCustomerId(customersFile) :
       /\ aborted' = o.trap
       /\ last' = Called(IF o.trap THEN "trap" ELSE "nextId", <<>>, <<>>, o.val)
  /\ UNCHANGED <<store, callers, customersFile, vehiclesFile, servicesFile, discountsFile, historyFile, input, raw, allocated>>

Call_saveCustomers ==
  /\ store = "customer" /\ ~aborted
  /\ customersFile' = saveCustomers(input)
  /\ raw' = Rewritten("save")
  /\ last' = Called("save", input, <<>>, 0)
  /\ UNCHANGED <<store, callers, vehiclesFile, servicesFile, discountsFile, historyFile, input, allocated, aborted>>

\* saveCustomers(loadCustomers()): the list just loaded is saved back
Resave_loadCustomers ==
  /\ store = "customer" /\ ~aborted
  /\ last.op = "load"
  /\ customersFile' = saveCustomers(last.ret)
  /\ raw' = Rewritten("resave")
  /\ last' = Called("resave", last.ret, <<>>, 0)
  /\ UNCHANGED <<store, callers, vehiclesFile, servicesFile, discountsFile, historyFile, input, allocated, aborted>>

Call_loadVehicles ==
  /\ store = "vehicle" /\ ~aborted
  /\ last' = Called("load", <<>>, loadVehicles(vehiclesFile), 0)
  /\ UNCHANGED <<store, callers, customersFile, vehiclesFile, servicesFile, discountsFile, historyFile, input, raw, allocated, aborted>>

Call_nextVehicleId ==
  /\ store = "vehicle" /\ ~aborted
  /\ \E o \in nextVehicleId(vehiclesFile) :
       /\ aborted' = o.trap
       /\ last' = Called(IF o.trap THEN "trap" ELSE "nextId", <<>>, <<>>, o.val)
  /\ UNCHANGED <<store, callers, customersFile, vehiclesFile, servicesFile, discountsFile, historyFile, input, raw, allocated>>

Call_saveVehicles ==
  /\ store = "vehicle" /\ ~aborted
  /\ vehiclesFile' = saveVehicles(input)
  /\ raw' = Rewritten("save")
  /\ last' = Called("save", input, <<>>, 0)
  /\ UNCHANGED <<store, callers, customersFile, servicesFile, discountsFile, historyFile, input, allocated, aborted>>

\* saveVehicles(loadVehicles()): the list just loaded is saved back
Resave_loadVehicles ==
  /\ store = "vehicle" /\ ~aborted
  /\ last.op = "load"
  /\ vehiclesFile' = saveVehicles(last.ret)
  /\ raw' = Rewritten("resave")
  /\ last' = Called("resave", last.ret, <<>>, 0)
  /\ UNCHANGED <<store, callers, customersFile, servicesFile, discountsFile, historyFile, input, allocated, aborted>>

Call_loadServices ==
  /\ store = "service" /\ ~aborted
  /\ last' = Called("load", <<>>, loadServices(servicesFile), 0)
  /\ UNCHANGED <<store, callers, customersFile, vehiclesFile, servicesFile, discountsFile, historyFile, input, raw, allocated, aborted>>

Call_nextServiceId ==
  /\ store = "service" /\ ~aborted
  /\ \E o \in nextServiceId(servicesFile) :
       /\ aborted' = o.trap
       /\ last' = Called(IF o.trap THEN "trap" ELSE "nextId", <<>>, <<>>, o.val)
  /\ UNCHANGED <<store, callers, customersFile, vehiclesFile, servicesFile, discountsFile, historyFile, input, raw, allocated>>

Call_saveServices ==
  /\ store = "service" /\ ~aborted
  /\ servicesFile' = saveServices(input)
  /\ raw' = Rewritten("save")
  /\ last' = Called("save", input, <<>>, 0)
  /\ UNCHANGED <<store, callers, customersFile, vehiclesFile, discountsFile, historyFile, input, allocated, aborted>>

\* saveServices(loadServices()): the list just loaded is saved back
Resave_loadServices ==
  /\ store = "service" /\ ~aborted
  /\ last.op = "load"
  /\ servicesFile' = saveServices(last.ret)
  /\ raw' = Rewritten("resave")
  /\ last' = Called("resave", last.ret, <<>>, 0)
  /\ UNCHANGED <<store, callers, customersFile, vehiclesFile, discountsFile, historyFile, input, allocated, aborted>>

Call_loadDiscounts ==
  /\ store = "discount" /\ ~aborted
  /\ last' = Called("load", <<>>, loadDiscounts(discountsFile), 0)
  /\ UNCHANGED <<store, callers, customersFile, vehiclesFile, servicesFile, discountsFile, historyFile, input, raw, allocated, aborted>>

Call_nextDiscountId ==
  /\ store = "discount" /\ ~aborted
  /\ \E o \in nextDiscountId(discountsFile) :
       /\ aborted' = o.trap
       /\ last' = Called(IF o.trap THEN "trap" ELSE "nextId", <<>>, <<>>, o.val)
  /\ UNCHANGED <<store, callers, customersFile, vehiclesFile, servicesFile, discountsFile, historyFile, input, raw, allocated>>

Call_saveDiscounts ==
  /\ store = "discount" /\ ~aborted
  /\ discountsFile' = saveDiscounts(input)
  /\ raw' = Rewritten("save")
  /\ last' = Called("save", input, <<>>, 0)
  /\ UNCHANGED <<store, callers, customersFile, vehiclesFile, servicesFile, historyFile, input, allocated, aborted>>

\* saveDiscounts(loadDiscounts()): the list just loaded is saved back
Resave_loadDiscounts ==
  /\ store = "discount" /\ ~aborted
  /\ last.op = "load"
  /\ discountsFile' = saveDiscounts(last.ret)
  /\ raw' = Rewritten("resave")
  /\ last' = Called("resave", last.ret, <<>>, 0)
  /\ UNCHANGED <<store, callers, customersFile, vehiclesFile, servicesFile, historyFile, input, allocated, aborted>>

Call_loadHistory ==
  /\ store = "history" /\ ~aborted
  /\ last' = Called("load", <<>>, loadHistory(historyFile), 0)
  /\ UNCHANGED <<store, callers, customersFile, vehiclesFile, servicesFile, discountsFile, historyFile, input, raw, allocated, aborted>>

Call_nextHistoryId ==
  /\ store = "history" /\ ~aborted
  /\ \E o \in nextHistoryId(historyFile) :
       /\ aborted' = o.trap
       /\ last' = Called(IF o.trap THEN "trap" ELSE "nextId", <<>>, <<>>, o.val)
  /\ UNCHANGED <<store, callers, customersFile, vehiclesFile, servicesFile, discountsFile, historyFile, input, raw, allocated>>

Call_saveHistory ==
  /\ store = "history" /\ ~aborted
  /\ historyFile' = saveHistory(input)
  /\ raw' = Rewritten("save")
  /\ last' = Called("save", input, <<>>, 0)
  /\ UNCHANGED <<store, callers, customersFile, vehiclesFile, servicesFile, discountsFile, input, allocated, aborted>>

\* saveHistory(loadHistory()): the list just loaded is saved back
Resave_loadHistory ==
  /\ store = "history" /\ ~aborted
  /\ last.op = "load"
  /\ historyFile' = saveHistory(last.ret)
  /\ raw' = Rewritten("resave")
  /\ last' = Called("resave", last.ret, <<>>, 0)
  /\ UNCHANGED <<store, callers, customersFile, vehiclesFile, servicesFile, discountsFile, input, allocated, aborted>>

\* ------------------------------------------------------------------------
\* Add and delete flows of the menus
\* ------------------------------------------------------------------------

addCustomerInteractive(name, phone, email) ==
  /\ Focus("customer") /\ ~aborted
  /\ LET list == loadCustomers(customersFile)
     IN  \E o \in nextCustomerId(customersFile) :
           IF o.trap
           THEN /\ aborted' = TRUE
                /\ last' = Called("trap", <<>>, <<>>, 0)
                /\ UNCHANGED <<customersFile, raw, allocated>>
           ELSE /\ o.val <= MaxAlloc \/ raw.by = "hand"
                /\ customersFile' = saveCustomers(Append(list, [id |-> o.val, name |-> name, phone |-> phone, email |-> email]))
                /\ raw' = Rewritten("add")
                /\ allocated' = Allocated(o.val)
                /\ last' = Called("add", list, <<[id |-> o.val, name |-> name, phone |-> phone, email |-> email]>>, o.val)
                /\ UNCHANGED aborted
  /\ UNCHANGED <<store, callers, vehiclesFile, servicesFile, discountsFile, historyFile, input>>

\* the list is saved whether a record was removed or not
deleteCustomerSaving(id) ==
  /\ Focus("customer") /\ ~aborted
  /\ customersFile' = saveCustomers(RemoveIf(loadCustomers(customersFile), id))
  /\ raw' = Rewritten("delete")
  /\ last' = Called("delete", loadCustomers(customersFile), <<>>, id)
  /\ UNCHANGED <<store, callers, vehiclesFile, servicesFile, discountsFile, historyFile, input, allocated, aborted>>

\* deleteCustomer(): remove_if on the list loaded; the list is saved when a
\* record was removed
deleteCustomer(id) ==
  /\ Focus("customer") /\ ~aborted
  /\ LET list == loadCustomers(customersFile)
         kept == RemoveIf(list, id)
     IN  /\ IF Len(kept) # Len(list)
            THEN customersFile' = saveCustomers(kept) /\ raw' = Rewritten("delete")
            ELSE UNCHANGED <<customersFile, raw>>
         /\ last' = Called("delete", list, <<>>, id)
  /\ UNCHANGED <<store, callers, vehiclesFile, servicesFile, discountsFile, historyFile, input, allocated, aborted>>

registerVehicleInteractive(customerId, regNo, model, color) ==
  /\ Focus("vehicle") /\ ~aborted
  /\ LET list == loadVehicles(vehiclesFile)
     IN  \E o \in nextVehicleId(vehiclesFile) :
           IF o.trap
           THEN /\ aborted' = TRUE
                /\ last' = Called("trap", <<>>, <<>>, 0)
                /\ UNCHANGED <<vehiclesFile, raw, allocated>>
           ELSE /\ o.val <= MaxAlloc \/ raw.by = "hand"
                /\ vehiclesFile' = saveVehicles(Append(list, [id |-> o.val, customerId |-> customerId, regNo |-> regNo, model |-> model, color |-> color]))
                /\ raw' = Rewritten("add")
                /\ allocated' = Allocated(o.val)
                /\ last' = Called("add", list, <<[id |-> o.val, customerId |-> customerId, regNo |-> regNo, model |-> model, color |-> color]>>, o.val)
                /\ UNCHANGED aborted
  /\ UNCHANGED <<store, callers, customersFile, servicesFile, discountsFile, historyFile, input>>

deleteVehicle(id) ==
  /\ Focus("vehicle") /\ ~aborted
  /\ LET list == loadVehicles(vehiclesFile)
         kept == RemoveIf(list, id)
     IN  /\ IF Len(kept) # Len(list)
            THEN vehiclesFile' = saveVehicles(kept) /\ raw' = Rewritten("delete")
            ELSE UNCHANGED <<vehiclesFile, raw>>
         /\ last' = Called("delete", list, <<>>, id)
  /\ UNCHANGED <<store, callers, customersFile, servicesFile, discountsFile, historyFile, input, allocated, aborted>>

addServiceInteractive(name, price) ==
  /\ Focus("service") /\ ~aborted
  /\ DecGE0(price)
  /\ LET list == loadServices(servicesFile)
     IN  \E o \in nextServiceId(servicesFile) :
           IF o.trap
           THEN /\ aborted' = TRUE
                /\ last' = Called("trap", <<>>, <<>>, 0)
                /\ UNCHANGED <<servicesFile, raw, allocated>>
           ELSE /\ o.val <= MaxAlloc \/ raw.by = "hand"
                /\ servicesFile' = saveServices(Append(list, [id |-> o.val, name |-> name, price |-> price]))
                /\ raw' = Rewritten("add")
                /\ allocated' = Allocated(o.val)
                /\ last' = Called("add", list, <<[id |-> o.val, name |-> name, price |-> price]>>, o.val)
                /\ UNCHANGED aborted
  /\ UNCHANGED <<store, callers, customersFile, vehiclesFile, discountsFile, historyFile, input>>

deleteService(id) ==
  /\ Focus("service") /\ ~aborted
  /\ LET list == loadServices(servicesFile)
         kept == RemoveIf(list, id)
     IN  /\ IF Len(kept) # Len(list)
            THEN servicesFile' = saveServices(kept) /\ raw' = Rewritten("delete")
            ELSE UNCHANGED <<servicesFile, raw>>
         /\ last' = Called("delete", list, <<>>, id)
  /\ UNCHANGED <<store, callers, customersFile, vehiclesFile, discountsFile, historyFile, input, allocated, aborted>>

addDiscountInteractive(name, percent, note) ==
  /\ Focus("discount") /\ ~aborted
  /\ LET list == loadDiscounts(discountsFile)
     IN  \E o \in nextDiscountId(discountsFile) :
           IF o.trap
           THEN /\ aborted' = TRUE
                /\ last' = Called("trap", <<>>, <<>>, 0)
                /\ UNCHANGED <<discountsFile, raw, allocated>>
           ELSE /\ o.val <= MaxAlloc \/ raw.by = "hand"
                /\ discountsFile' = saveDiscounts(Append(list, [id |-> o.val, name |-> name, percent |-> percent, note |-> note]))
                /\ raw' = Rewritten("add")
                /\ allocated' = Allocated(o.val)
                /\ last' = Called("add", list, <<[id |-> o.val, name |-> name, percent |-> percent, note |-> note]>>, o.val)
                /\ UNCHANGED aborted
  /\ UNCHANGED <<store, callers, customersFile, vehiclesFile, servicesFile, historyFile, input>>

deleteDiscount(id) ==
  /\ Focus("discount") /\ ~aborted
  /\ LET list == loadDiscounts(discountsFile)
         kept == RemoveIf(list, id)
     IN  /\ IF Len(kept) # Len(list)
            THEN discountsFile' = saveDiscounts(kept) /\ raw' = Rewritten("delete")
            ELSE UNCHANGED <<discountsFile, raw>>
         /\ last' = Called("delete", list, <<>>, id)
  /\ UNCHANGED <<store, callers, customersFile, vehiclesFile, servicesFile, historyFile, input, allocated, aborted>>

\* ------------------------------------------------------------------------
\* Specifications
\* ------------------------------------------------------------------------
\* The store functions called on a hand-written or missing file and on a
\* list.
Next ==
  \/ Call_loadCustomers
  \/ Call_nextCustomerId
  \/ Call_saveCustomers
  \/ Resave_loadCustomers
  \/ Call_loadVehicles
  \/ Call_nextVehicleId
  \/ Call_saveVehicles
  \/ Resave_loadVehicles
  \/ Call_loadServices
  \/ Call_nextServiceId
  \/ Call_saveServices
  \/ Resave_loadServices
  \/ Call_loadDiscounts
  \/ Call_nextDiscountId
  \/ Call_saveDiscounts
  \/ Resave_loadDiscounts
  \/ Call_loadHistory
  \/ Call_nextHistoryId
  \/ Call_saveHistory
  \/ Resave_loadHistory

Spec == Init /\ [][Next]_vars

\* A store that starts with no file or with an empty one and is changed by
\* the add and delete flows only.
InitFresh == Init /\ raw.lines = <<>> /\ input = <<>>

NextFresh ==
  \/ \E name \in Names, email \in {<<>>, <<"a">>} : addCustomerInteractive(name, <<"9">>, email)
  \/ \E id \in InputIds : deleteCustomer(id)
  \/ \E customerId \in {1, 2}, regNo \in Names : registerVehicleInteractive(customerId, regNo, <<"M">>, <<>>)
  \/ \E id \in InputIds : deleteVehicle(id)
  \/ \E name \in Names, price \in Amounts : addServiceInteractive(name, price)
  \/ \E id \in InputIds : deleteService(id)
  \/ \E name \in Names, percent \in Amounts : addDiscountInteractive(name, percent, <<"n">>)
  \/ \E id \in InputIds : deleteDiscount(id)

SpecFresh == InitFresh /\ [][NextFresh]_vars

\* ------------------------------------------------------------------------
\* Default catalogs
\* ------------------------------------------------------------------------
\* the defaults without General Service
DefaultServicesShort ==
  <<[id |-> 1,
     name |-> <<"O", "i", "l", " ", "C", "h", "a", "n", "g", "e">>,
     price |-> [m |-> 12, e |-> 2]],
    [id |-> 2,
     name |-> <<"B", "r", "a", "k", "e", " ", "I", "n", "s", "p", "e", "c", "t", "i", "o", "n">>,
     price |-> [m |-> 8, e |-> 2]],
    [id |-> 3,
     name |-> <<"W", "h", "e", "e", "l", " ", "A", "l", "i", "g", "n", "m", "e", "n", "t">>,
     price |-> [m |-> 6, e |-> 2]],
    [id |-> 4,
     name |-> <<"C", "a", "r", " ", "W", "a", "s", "h">>,
     price |-> [m |-> 5, e |-> 2]],
    [id |-> 5,
     name |-> <<"E", "n", "g", "i", "n", "e", " ", "T", "u", "n", "e", "-", "u", "p">>,
     price |-> [m |-> 2, e |-> 3]]>>

\* list.push_back({1, "Oil Change", 1200}); ... {6, "General Service", 1500}
DefaultServices ==
  <<[id |-> 1,
     name |-> <<"O", "i", "l", " ", "C", "h", "a", "n", "g", "e">>,
     price |-> [m |-> 12, e |-> 2]],
    [id |-> 2,
     name |-> <<"B", "r", "a", "k", "e", " ", "I", "n", "s", "p", "e", "c", "t", "i", "o", "n">>,
     price |-> [m |-> 8, e |-> 2]],
    [id |-> 3,
     name |-> <<"W", "h", "e", "e", "l", " ", "A", "l", "i", "g", "n", "m", "e", "n", "t">>,
     price |-> [m |-> 6, e |-> 2]],
    [id |-> 4,
     name |-> <<"C", "a", "r", " ", "W", "a", "s", "h">>,
     price |-> [m |-> 5, e |-> 2]],
    [id |-> 5,
     name |-> <<"E", "n", "g", "i", "n", "e", " ", "T", "u", "n", "e", "-", "u", "p">>,
     price |-> [m |-> 2, e |-> 3]],
    [id |-> 6,
     name |-> <<"G", "e", "n", "e", "r", "a", "l", " ", "S", "e", "r", "v", "i", "c", "e">>,
     price |-> [m |-> 15, e |-> 2]]>>

\* list.push_back({1, "New Year Offer", 10.0, "New Year 10% off"}); ...
DefaultDiscounts ==
  <<[id |-> 1,
     name |-> <<"N", "e", "w", " ", "Y", "e", "a", "r", " ", "O", "f", "f", "e", "r">>,
     percent |-> [m |-> 1, e |-> 1],
     note |-> <<"N", "e", "w", " ", "Y", "e", "a", "r", " ", "1", "0", "%", " ", "o", "f", "f">>],
    [id |-> 2,
     name |-> <<"D", "i", "w", "a", "l", "i", " ", "S", "p", "e", "c", "i", "a", "l">>,
     percent |-> [m |-> 15, e |-> 0],
     note |-> <<"F", "e", "s", "t", "i", "v", "a", "l", " ", "o", "f", "f", "e", "r">>],
    [id |-> 3,
     name |-> <<"S", "u", "m", "m", "e", "r", " ", "S", "a", "l", "e">>,
     percent |-> [m |-> 5, e |-> 0],
     note |-> <<"F", "l", "a", "t", " ", "5", "%", " ", "s", "u", "m", "m", "e", "r", " ", "d", "i", "s", "c", "o", "u", "n", "t">>]>>

\* the defaults are saved when the file holds no line
ensureDefaultServicesIfNoLine ==
  /\ Focus("service") /\ ~aborted
  /\ IF Len(FileLines(servicesFile)) # 0
     THEN UNCHANGED <<servicesFile, raw>>
     ELSE /\ servicesFile' = saveServices(DefaultServices)
          /\ raw' = Rewritten("defaults")
  /\ last' = Called("defaults", loadServices(servicesFile), <<>>, 0)
  /\ UNCHANGED <<store, callers, customersFile, vehiclesFile, discountsFile, historyFile, input, allocated, aborted>>

\* the defaults appended and saved whatever was loaded
ensureDefaultServicesAlways ==
  /\ Focus("service") /\ ~aborted
  /\ LET list == loadServices(servicesFile)
     IN  /\ servicesFile' = saveServices(list \o DefaultServices)
         /\ raw' = Rewritten("defaults")
         /\ last' = Called("defaults", list, <<>>, 0)
  /\ UNCHANGED <<store, callers, customersFile, vehiclesFile, discountsFile, historyFile, input, allocated, aborted>>

\* ensureDefaultServices(): the defaults are saved when nothing loads
ensureDefaultServices ==
  /\ Focus("service") /\ ~aborted
  /\ LET list == loadServices(servicesFile)
     IN  /\ IF Len(list) # 0
            THEN UNCHANGED <<servicesFile, raw>>
            ELSE /\ servicesFile' = saveServices(list \o DefaultServices)
                 /\ raw' = Rewritten("defaults")
         /\ last' = Called("defaults", list, <<>>, 0)
  /\ UNCHANGED <<store, callers, customersFile, vehiclesFile, discountsFile, historyFile, input, allocated, aborted>>

\* ensureDefaultDiscounts()
ensureDefaultDiscounts ==
  /\ Focus("discount") /\ ~aborted
  /\ LET list == loadDiscounts(discountsFile)
     IN  /\ IF Len(list) # 0
            THEN UNCHANGED <<discountsFile, raw>>
            ELSE /\ discountsFile' = saveDiscounts(list \o DefaultDiscounts)
                 /\ raw' = Rewritten("defaults")
         /\ last' = Called("defaults", list, <<>>, 0)
  /\ UNCHANGED <<store, callers, customersFile, vehiclesFile, servicesFile, historyFile, input, allocated, aborted>>

\* what the user types at the price prompt of updateService
PriceInputs == {<<>>, <<"0">>, <<"9", "0", "0">>, <<"-", "1">>}

\* the index of the first element of the list with the id, 0 when there is none
FindById(list, id) ==
  LET found == {i \in 1..Len(list) : list[i].id = id}
  IN  IF found = {} THEN 0 ELSE CHOOSE i \in found : \A j \in found : i <= j

\* a string typed at a prompt replaces the field unless it is blank
Typed(tmp, old) == IF Len(tmp) # 0 THEN tmp ELSE old

\* the file after updateService() has loaded the list
UpdateServiceIn(f, list, id, name, priceInput) ==
  IF FindById(list, id) = 0 THEN f
  ELSE saveServices(
         [list EXCEPT ![FindById(list, id)] =
            [id |-> list[FindById(list, id)].id,
             name |-> Typed(name, list[FindById(list, id)].name),
             price |-> IF Len(priceInput) # 0 THEN stod(priceInput).val
                       ELSE list[FindById(list, id)].price]])

\* updateService(): the first service with the id gets the name typed, unless
\* it is blank, and the price typed, unless it is blank; a price that is not
\* a number >= 0 is asked again
updateService(id, name, priceInput) ==
  /\ Focus("service") /\ ~aborted
  /\ Len(priceInput) = 0 \/ (stod(priceInput).ok /\ DecGE0(stod(priceInput).val))
  /\ servicesFile' = UpdateServiceIn(servicesFile, loadServices(servicesFile), id, name, priceInput)
  /\ raw' = IF FindById(loadServices(servicesFile), id) = 0 THEN raw
            ELSE Rewritten("update")
  /\ last' = Called("update", loadServices(servicesFile), <<name, priceInput>>, id)
  /\ UNCHANGED <<store, callers, customersFile, vehiclesFile, discountsFile, historyFile, input, allocated, aborted>>

\* ------------------------------------------------------------------------
\* The other flows of the menus
\* ------------------------------------------------------------------------
\* updateCustomer(): each field typed replaces the stored one unless it is blank
updateCustomer(id, name, phone, email) ==
  /\ Focus("customer") /\ ~aborted
  /\ LET list == loadCustomers(customersFile)
         k    == FindById(list, id)
     IN  /\ IF k = 0
            THEN UNCHANGED <<customersFile, raw>>
            ELSE /\ customersFile' = saveCustomers(
                      [list EXCEPT ![k] = [id |-> list[k].id,
                                           name |-> Typed(name, list[k].name),
                                           phone |-> Typed(phone, list[k].phone),
                                           email |-> Typed(email, list[k].email)]])
                 /\ raw' = Rewritten("update")
         /\ last' = Called("update", list, <<name, phone, email>>, id)
  /\ UNCHANGED <<store, callers, vehiclesFile, servicesFile, discountsFile, historyFile, input, allocated, aborted>>

\* the defaults written only when there is no file
ensuredServicesIfMissing(f) ==
  IF f.exists THEN f ELSE saveServices(DefaultServices)

\* the services file after ensureDefaultServices()
ensuredServices(f) ==
  IF Len(loadServices(f)) # 0 THEN f ELSE saveServices(DefaultServices)

\* the discounts file after ensureDefaultDiscounts()
ensuredDiscounts(f) ==
  IF Len(loadDiscounts(f)) # 0 THEN f ELSE saveDiscounts(DefaultDiscounts)

\* Sums and products of prices and percents.  The program computes them on
\* doubles, exact to fifteen digits; the file keeps six.
DecSigned(m, e) ==
  IF m < 0 THEN [m |-> 0 - DecNorm(0 - m, e).m, e |-> DecNorm(0 - m, e).e]
  ELSE DecNorm(m, e)

DecAdd(a, b) ==
  LET e == IF a.e < b.e THEN a.e ELSE b.e
  IN  DecSigned(a.m * Pow10(a.e - e) + b.m * Pow10(b.e - e), e)

DecMul(a, b) == DecSigned(a.m * b.m, a.e + b.e)

DecNeg(a) == [m |-> 0 - a.m, e |-> a.e]

\* subtotal += s->price for the chosen ids
RECURSIVE Subtotal(_, _)
Subtotal(services, chosen) ==
  IF Len(chosen) = 0 THEN Dec(0)
  ELSE IF FindById(services, Head(chosen)) = 0
  THEN Subtotal(services, Tail(chosen))
  ELSE DecAdd(services[FindById(services, Head(chosen))].price,
              Subtotal(services, Tail(chosen)))

\* currentDateTime(): the time of the booking, as strftime prints it
currentDateTime == Stamp

\* every number typed is taken
ChosenAll(services, typed) == typed

\* the services typed that are on the list, in the order typed
Chosen(services, typed) == SelectSeq(typed, LAMBDA sid : FindById(services, sid) # 0)

\* the ServiceHistory of the booking: total = subtotal - subtotal * pct / 100
Booking(historyId, custId, vehId, chosen, subtotal, did, discPct) ==
  [historyId |-> historyId, customerId |-> custId, vehicleId |-> vehId,
   serviceIds |-> chosen, dateTime |-> currentDateTime, subtotal |-> subtotal,
   discountId |-> did, discountPercent |-> discPct,
   total |-> DecAdd(subtotal, DecNeg(DecMul(subtotal, [m |-> discPct.m, e |-> discPct.e - 2]))),
   status |-> Pending]

\* the end of bookServiceFlow(): h.historyId = nextHistoryId(), then
\* addHistoryEntry(h) on the list loaded
BookSave(list, asked, chosen, subtotal, did, discPct) ==
  \E o \in nextHistoryId(historyFile) :
    IF o.trap
    THEN /\ aborted' = TRUE
         /\ last' = Called("trap", <<>>, <<>>, 0)
         /\ UNCHANGED <<historyFile, raw>>
    ELSE /\ o.val <= MaxAlloc
         /\ historyFile' = saveHistory(Append(list,
              Booking(o.val, asked.custId, asked.vehId, chosen, subtotal, did, discPct)))
         /\ raw' = Rewritten("book")
         /\ last' = Called("book", asked,
                           <<Booking(o.val, asked.custId, asked.vehId, chosen, subtotal, did, discPct)>>,
                           o.val)
         /\ UNCHANGED aborted

\* what was typed in bookServiceFlow()
Asked(custId, vehId, typed, did) ==
  [custId |-> custId, vehId |-> vehId, typed |-> typed, did |-> did]

\* the id typed is recorded whatever it is
AppliedDiscountTyped(discounts, did) == did

\* did = -1 when 0 was typed or no discount has the id typed
AppliedDiscount(discounts, did) ==
  IF did = 0 \/ FindById(discounts, did) = 0 THEN -1 ELSE did

\* discPct = 0.0, or d->percent of the discount found
AppliedPercent(discounts, did) ==
  IF did = 0 \/ FindById(discounts, did) = 0 THEN Dec(0)
  ELSE discounts[FindById(discounts, did)].percent

\* bookServiceFlow() on the lists loaded: it returns at once when the
\* customer is missing, the vehicle is not one of the customer or no service
\* typed is on the list
BookOn(services, discounts, customers, vehicles, list, custId, vehId, typed, did) ==
  IF \/ FindById(customers, custId) = 0
     \/ ~\E i \in 1..Len(vehicles) :
           vehicles[i].id = vehId /\ vehicles[i].customerId = custId
     \/ Len(Chosen(services, typed)) = 0
  THEN /\ last' = Called("book", Asked(custId, vehId, typed, did), <<>>, 0)
       /\ UNCHANGED <<historyFile, raw, aborted>>
  ELSE BookSave(list, Asked(custId, vehId, typed, did), Chosen(services, typed),
                Subtotal(services, Chosen(services, typed)),
                AppliedDiscount(discounts, did), AppliedPercent(discounts, did))

\* bookServiceFlow() after ensureDefaultServices(), ensureDefaultDiscounts()
BookEnsured(sf, df, custId, vehId, typed, did) ==
  /\ servicesFile' = sf
  /\ discountsFile' = df
  /\ BookOn(loadServices(sf), loadDiscounts(df), loadCustomers(customersFile),
            loadVehicles(vehiclesFile), loadHistory(historyFile),
            custId, vehId, typed, did)

\* bookServiceFlow(): custId and vehId are the ids typed, typed the service
\* numbers typed before the closing 0, did the discount id typed
bookServiceFlow(custId, vehId, typed, did) ==
  /\ Focus("history") /\ ~aborted
  /\ BookEnsured(ensuredServices(servicesFile), ensuredDiscounts(discountsFile),
                 custId, vehId, typed, did)
  /\ UNCHANGED <<store, callers, customersFile, vehiclesFile, input, allocated>>

\* the first entry of the list with the id
FirstEntry(list, id) ==
  CHOOSE i \in 1..Len(list) :
    /\ list[i].historyId = id
    /\ \A j \in 1..(i - 1) : list[j].historyId # id

\* markHistoryCompleted() on the list loaded: the first entry with the id is
\* set to Completed
MarkCompletedOn(list, id) ==
  /\ IF \E i \in 1..Len(list) : list[i].historyId = id
     THEN /\ historyFile' = saveHistory(
                 [list EXCEPT ![FirstEntry(list, id)].status = Completed])
          /\ raw' = Rewritten("complete")
     ELSE UNCHANGED <<historyFile, raw>>
  /\ last' = Called("complete", list, <<>>, id)

\* markHistoryCompleted()
markHistoryCompleted(id) ==
  /\ Focus("history") /\ ~aborted
  /\ MarkCompletedOn(loadHistory(historyFile), id)
  /\ UNCHANGED <<store, callers, customersFile, vehiclesFile, servicesFile, discountsFile, input, allocated, aborted>>

\* the vehicles file when kept is what remove_if left of the list
VehiclesKept(f, list, kept) ==
  IF Len(kept) # Len(list) THEN saveVehicles(kept) ELSE f

\* the vehicles file is left as it is
VehiclesUntouched(f, list, customerId) == f

\* deleteVehiclesForCustomer(customerId) on the vehicles file and its list
VehiclesWithout(f, list, customerId) ==
  VehiclesKept(f, list, SelectSeq(list, LAMBDA v : v.customerId # customerId))

\* deleteVehiclesForCustomer(customerId) on the vehicles file
deleteVehiclesForCustomer(f, customerId) ==
  VehiclesWithout(f, loadVehicles(f), customerId)

\* the entries of the customer change their status, whatever it is
ToggledFor(list, cid) ==
  [i \in 1..Len(list) |->
     IF list[i].customerId = cid
     THEN [list[i] EXCEPT !.status = IF @ = Pending THEN Completed ELSE Pending]
     ELSE list[i]]

\* the history list with the pending entries of the customer completed
CompletedFor(list, cid) ==
  [i \in 1..Len(list) |->
     IF list[i].customerId = cid /\ list[i].status = Pending
     THEN [list[i] EXCEPT !.status = Completed]
     ELSE list[i]]

\* case 0 of main on the lists loaded
ExitOn(list, customers, cid) ==
  /\ IF cid > 0 /\ \E i \in 1..Len(list) :
                     list[i].customerId = cid /\ list[i].status = Pending
     THEN /\ historyFile' = saveHistory(CompletedFor(list, cid))
          /\ raw' = Rewritten("exit")
          /\ vehiclesFile' = deleteVehiclesForCustomer(vehiclesFile, cid)
          /\ customersFile' = (IF Len(RemoveIf(customers, cid)) # Len(customers)
                               THEN saveCustomers(RemoveIf(customers, cid))
                               ELSE customersFile)
     ELSE UNCHANGED <<historyFile, raw, vehiclesFile, customersFile>>
  /\ last' = Called("exit", list, <<>>, cid)

\* case 0 of main: the pending entries of the customer are completed, then
\* the vehicles of the customer and the customer are deleted, and main
\* returns: the program is to be started again
exitFlow(cid) ==
  /\ Focus("history") /\ ~aborted
  /\ ExitOn(loadHistory(historyFile), loadCustomers(customersFile), cid)
  /\ store' = "boot"
  /\ UNCHANGED <<callers, servicesFile, discountsFile, input, allocated, aborted>>

\* the ids typed at the prompts of the flows that edit a hand-written file
EditIds == {1, 3}

\* A hand-written or missing file of one of the four map stores, changed
\* once by a delete flow of the menus and seeded with the defaults.
InitEdit == Init /\ input = <<>> /\ store \in {"customer", "vehicle", "service", "discount"}

NextEdit ==
  \/ raw.by = "hand" /\ \E id \in EditIds : deleteCustomer(id)
  \/ raw.by = "hand" /\ \E id \in EditIds : deleteVehicle(id)
  \/ raw.by = "hand" /\ \E id \in EditIds : deleteService(id)
  \/ raw.by = "hand" /\ \E id \in EditIds : deleteDiscount(id)
  \/ ensureDefaultServices
  \/ ensureDefaultDiscounts

SpecEdit == InitEdit /\ [][NextEdit]_vars

\* A hand-written or missing services file, changed once by the update flow.
InitUpdate == InitEdit /\ store = "service"

NextUpdate ==
  /\ last.op = "init"
  /\ \E id \in EditIds, name \in {<<>>, Jo}, priceInput \in PriceInputs :
       updateService(id, name, priceInput)

SpecUpdate == InitUpdate /\ [][NextUpdate]_vars

\* the service ids of a booking
ServiceIdInputs == {-1, 0, 1, 2, 10, INT_MAX}

\* One history entry, as the tests build it, with any list of service ids,
\* saved over a missing file and loaded.
InitSlot ==
  /\ store = "history"
  /\ raw = [by |-> "hand", exists |-> FALSE, nl |-> TRUE, lines |-> <<>>]
  /\ \E ids \in ListsOf(ServiceIdInputs) :
       input = <<[historyId |-> 1, customerId |-> 1, vehicleId |-> 1,
                  serviceIds |-> ids, dateTime |-> Stamp, subtotal |-> Dec(2000),
                  discountId |-> -1, discountPercent |-> Dec(0),
                  total |-> Dec(2000), status |-> Pending]>>
  /\ customersFile = NoFile /\ vehiclesFile = NoFile /\ servicesFile = NoFile
  /\ discountsFile = NoFile /\ historyFile = NoFile
  /\ last = [op |-> "init", arg |-> <<>>, ret |-> <<>>, id |-> 0,
             pre |-> NoFile, hand |-> TRUE]
  /\ allocated = {}
  /\ aborted = FALSE
  /\ callers = <<>>

NextSlot ==
  \/ Call_saveHistory
  \/ Call_loadHistory

SpecSlot == InitSlot /\ [][NextSlot]_vars

\* The tokens written by hand between the commas of a serviceIds slot:
\* numeric says that the token is a decimal numeral, parses and val give what
\* std::stoi makes of it
SlotTokens ==
  <<
     [text |-> <<>>, numeric |-> FALSE, parses |-> FALSE, val |-> 0],
     [text |-> <<"1">>, numeric |-> TRUE, parses |-> TRUE, val |-> 1],
     [text |-> <<"2">>, numeric |-> TRUE, parses |-> TRUE, val |-> 2],
     [text |-> <<"a">>, numeric |-> FALSE, parses |-> FALSE, val |-> 0],
     [text |-> <<"2", "x">>, numeric |-> FALSE, parses |-> TRUE, val |-> 2],
     [text |-> <<"-">>, numeric |-> FALSE, parses |-> FALSE, val |-> 0],
     [text |-> <<"9", "9", "9", "9", "9", "9", "9", "9", "9", "9">>, numeric |-> TRUE, parses |-> FALSE, val |-> 0]
  >>

RECURSIVE JoinTokens(_, _)
JoinTokens(toks, i) ==
  IF i > Len(toks) THEN <<>>
  ELSE (IF i > 1 THEN <<",">> ELSE <<>>) \o SlotTokens[toks[i]].text
       \o JoinTokens(toks, i + 1)

\* the history line of a hand-written file with the tokens in its slot
SlotLine(toks) ==
  <<"7", "|", "1", "|", "1", "|">> \o JoinTokens(toks, 1) \o <<"|">> \o Stamp
  \o <<"|", "5", "|", "-", "1", "|", "0", "|", "5", "|">> \o Pending \o <<"\n">>

\* A hand-written history file of one line, with any tokens in the slot.
InitTokens ==
  /\ store = "history"
  /\ \E toks \in ListsOf(1..Len(SlotTokens)) :
       /\ raw = [by |-> "slot", exists |-> TRUE, nl |-> TRUE, lines |-> toks]
       /\ historyFile = Written(SlotLine(toks))
  /\ input = <<>>
  /\ customersFile = NoFile /\ vehiclesFile = NoFile /\ servicesFile = NoFile
  /\ discountsFile = NoFile
  /\ last = [op |-> "init", arg |-> <<>>, ret |-> <<>>, id |-> 0,
             pre |-> NoFile, hand |-> FALSE]
  /\ allocated = {}
  /\ aborted = FALSE
  /\ callers = <<>>

NextTokens ==
  \/ Call_loadHistory
  \/ Call_nextHistoryId

SpecTokens == InitTokens /\ [][NextTokens]_vars

\* The application, started from missing or empty files and started again
\* after each exit: any sequence of the flows of the menus.
InitApp ==
  /\ store = "boot"
  /\ raw = [by |-> "app", exists |-> FALSE, nl |-> TRUE, lines |-> <<>>]
  /\ \E f \in {NoFile, Written(<<>>)} :
       /\ customersFile = f /\ vehiclesFile = f /\ servicesFile = f
       /\ discountsFile = f /\ historyFile = f
  /\ input = <<>>
  /\ last = [op |-> "init", arg |-> <<>>, ret |-> <<>>, id |-> 0,
             pre |-> NoFile, hand |-> FALSE]
  /\ allocated = {}
  /\ aborted = FALSE
  /\ callers = <<>>

\* main() up to its menu loop: ensureDefaultServices(), ensureDefaultDiscounts()
mainStart ==
  /\ store = "boot" /\ ~aborted
  /\ servicesFile' = ensuredServices(servicesFile)
  /\ discountsFile' = ensuredDiscounts(discountsFile)
  /\ store' = "menu"
  /\ UNCHANGED <<callers, customersFile, vehiclesFile, historyFile, input, raw, last, allocated, aborted>>

\* the customers, vehicles and bookings on file
AppRecords ==
  Len(FileLines(customersFile)) + Len(FileLines(vehiclesFile))
  + Len(FileLines(historyFile))

NextApp ==
  \/ mainStart
  \/ AppRecords <= MaxAlloc /\ addCustomerInteractive(Jo, <<"9">>, <<>>)
  \/ updateCustomer(1, <<"K">>, <<>>, <<>>)
  \/ deleteCustomer(1)
  \/ AppRecords <= MaxAlloc /\ registerVehicleInteractive(1, <<"R">>, <<"M">>, <<>>)
  \/ deleteVehicle(1)
  \/ deleteService(1)
  \/ deleteDiscount(1)
  \/ AppRecords <= MaxAlloc /\ bookServiceFlow(1, 1, <<1, 2, 7>>, 1)
  \/ markHistoryCompleted(1)
  \/ exitFlow(1)

SpecApp == InitApp /\ [][NextApp]_vars

\* ------------------------------------------------------------------------
\* Two processes on the same files
\* ------------------------------------------------------------------------
\* The program takes no lock on its files: two processes that run an add flow
\* at the same time interleave at its file accesses.  Each access (a load, a
\* nextId scan, a save) is one step.
RaceCallers == {1, 2}

\* a process that has not entered the flow
Idle == [pc |-> "start", list |-> <<>>, id |-> 0, saved |-> 0]

\* the saves done so far
Saves == Cardinality({p \in RaceCallers : callers[p].saved > 0})

\* the name a process types: the two records differ
NameOfCaller(p) == IF p = 1 THEN <<"A">> ELSE <<"B">>

\* the Customer that addCustomerInteractive() of a process pushes back
CustomerOf(p) ==
  [id |-> callers[p].id, name |-> NameOfCaller(p), phone |-> <<"9">>, email |-> <<>>]

\* the ServiceHistory that a process hands to addHistoryEntry()
HistoryOf(p) ==
  [historyId |-> callers[p].id, customerId |-> p, vehicleId |-> 1,
   serviceIds |-> <<1>>, dateTime |-> Stamp, subtotal |-> Dec(1200),
   discountId |-> -1, discountPercent |-> Dec(0), total |-> Dec(1200),
   status |-> Pending]

\* a customer and a history entry already on file
CustomerOnFile(id) == [id |-> id, name |-> Jo, phone |-> <<"9">>, email |-> <<>>]

HistoryOnFile(id) ==
  [historyId |-> id, customerId |-> 1, vehicleId |-> 1, serviceIds |-> <<>>,
   dateTime |-> Stamp, subtotal |-> Dec(0), discountId |-> -1,
   discountPercent |-> Dec(0), total |-> Dec(0), status |-> Completed]

\* addCustomerInteractive(), first statement: list = loadCustomers()
addCustomer_load(p) ==
  /\ store = "customer" /\ callers[p].pc = "start"
  /\ callers' = [callers EXCEPT ![p].pc = "loaded",
                                ![p].list = loadCustomers(customersFile)]
  /\ UNCHANGED <<store, customersFile, vehiclesFile, servicesFile, discountsFile,
                 historyFile, input, raw, last, allocated, aborted>>

\* addCustomerInteractive(), second statement, on the file as it is by now,
\* with the nextId scan writing a line that reserves the id
addCustomer_nextIdReserving(p) ==
  /\ store = "customer" /\ callers[p].pc = "loaded"
  /\ \E o \in nextCustomerId(customersFile) :
       /\ ~o.trap
       /\ callers' = [callers EXCEPT ![p].pc = "named", ![p].id = o.val]
       /\ customersFile' = saveCustomers(Append(loadCustomers(customersFile),
                                                CustomerOnFile(o.val)))
  /\ UNCHANGED <<store, vehiclesFile, servicesFile, discountsFile,
                 historyFile, input, raw, last, allocated, aborted>>

\* addCustomerInteractive(), second statement: c.id = nextCustomerId(), on
\* the file as it is by now; an overflow trap kills the process
addCustomer_nextId(p) ==
  /\ store = "customer" /\ callers[p].pc = "loaded"
  /\ \E o \in nextCustomerId(customersFile) :
       callers' = IF o.trap THEN [callers EXCEPT ![p].pc = "dead"]
                  ELSE [callers EXCEPT ![p].pc = "named", ![p].id = o.val]
  /\ UNCHANGED <<store, customersFile, vehiclesFile, servicesFile, discountsFile,
                 historyFile, input, raw, last, allocated, aborted>>

\* a save that reads the file again and adds the record to what it finds
addCustomer_saveMerging(p) ==
  /\ store = "customer" /\ callers[p].pc = "named"
  /\ customersFile' = saveCustomers(Append(loadCustomers(customersFile), CustomerOf(p)))
  /\ callers' = [callers EXCEPT ![p].pc = "done", ![p].saved = Saves + 1]
  /\ UNCHANGED <<store, vehiclesFile, servicesFile, discountsFile,
                 historyFile, input, raw, last, allocated, aborted>>

\* addCustomerInteractive(), the end: list.push_back(c); saveCustomers(list)
addCustomer_save(p) ==
  /\ store = "customer" /\ callers[p].pc = "named"
  /\ customersFile' = saveCustomers(Append(callers[p].list, CustomerOf(p)))
  /\ callers' = [callers EXCEPT ![p].pc = "done", ![p].saved = Saves + 1]
  /\ UNCHANGED <<store, vehiclesFile, servicesFile, discountsFile,
                 historyFile, input, raw, last, allocated, aborted>>

\* addHistoryEntry(h), first statement: list = loadHistory(); the caller
\* has set h.historyId to id
addHistoryEntry_load(p, id) ==
  /\ store = "history" /\ callers[p].pc = "start"
  /\ callers' = [callers EXCEPT ![p].pc = "named", ![p].id = id,
                                ![p].list = loadHistory(historyFile)]
  /\ UNCHANGED <<store, customersFile, vehiclesFile, servicesFile, discountsFile,
                 historyFile, input, raw, last, allocated, aborted>>

\* addHistoryEntry(h), the end: list.push_back(h); saveHistory(list)
addHistoryEntry_save(p) ==
  /\ store = "history" /\ callers[p].pc = "named"
  /\ historyFile' = saveHistory(Append(callers[p].list, HistoryOf(p)))
  /\ callers' = [callers EXCEPT ![p].pc = "done", ![p].saved = Saves + 1]
  /\ UNCHANGED <<store, customersFile, vehiclesFile, servicesFile, discountsFile,
                 input, raw, last, allocated, aborted>>

\* The file of the store is missing or was saved by the program with records
\* of ids up to MaxId (a customer of id INT_MAX too); two processes are about
\* to add a record each.
InitRace ==
  /\ store \in {"customer", "history"}
  /\ raw = [by |-> "race", exists |-> FALSE, nl |-> TRUE, lines |-> <<>>]
  /\ IF store = "customer"
     THEN /\ \/ customersFile = NoFile
             \/ \E ids \in ListsOf((1..MaxId) \cup {INT_MAX}) :
                  customersFile = saveCustomers([i \in 1..Len(ids) |-> CustomerOnFile(ids[i])])
          /\ historyFile = NoFile
     ELSE /\ \/ historyFile = NoFile
             \/ \E ids \in ListsOf(1..MaxId) :
                  historyFile = saveHistory([i \in 1..Len(ids) |-> HistoryOnFile(ids[i])])
          /\ customersFile = NoFile
  /\ vehiclesFile = NoFile /\ servicesFile = NoFile /\ discountsFile = NoFile
  /\ input = <<>>
  /\ last = [op |-> "init", arg |-> <<>>, ret |-> <<>>, id |-> 0,
             pre |-> NoFile, hand |-> FALSE]
  /\ allocated = {}
  /\ aborted = FALSE
  /\ callers = [p \in RaceCallers |-> Idle]

NextRace ==
  \E p \in RaceCallers :
    \/ addCustomer_load(p)
    \/ addCustomer_nextId(p)
    \/ addCustomer_save(p)
    \/ \E id \in 1..(MaxId + 1) : addHistoryEntry_load(p, id)
    \/ addHistoryEntry_save(p)

SpecRace == InitRace /\ [][NextRace]_vars

\* ------------------------------------------------------------------------
\* addHistoryEntry called on its own, as the test of the history store does
\* ------------------------------------------------------------------------

\* the entry is left out when its id is on file already
addHistoryEntryUnlessPresent(h) ==
  /\ store = "history" /\ ~aborted
  /\ last.op = "init" \/ (last.op = "append" /\ ~last.pre.exists)
  /\ historyFile' =
       saveHistory(IF \E i \in 1..Len(loadHistory(historyFile)) :
                        loadHistory(historyFile)[i].historyId = h.historyId
                   THEN loadHistory(historyFile)
                   ELSE Append(loadHistory(historyFile), h))
  /\ raw' = Rewritten("append")
  /\ last' = Called("append", loadHistory(historyFile), <<h>>, h.historyId)
  /\ UNCHANGED <<store, callers, customersFile, vehiclesFile, servicesFile, discountsFile, input, allocated, aborted>>

\* addHistoryEntry(h): list = loadHistory(); list.push_back(h);
\* saveHistory(list).  A run makes one call, and a second one when the first
\* one found no file.
addHistoryEntry(h) ==
  /\ store = "history" /\ ~aborted
  /\ last.op = "init" \/ (last.op = "append" /\ ~last.pre.exists)
  /\ historyFile' = saveHistory(Append(loadHistory(historyFile), h))
  /\ raw' = Rewritten("append")
  /\ last' = Called("append", loadHistory(historyFile), <<h>>, h.historyId)
  /\ UNCHANGED <<store, callers, customersFile, vehiclesFile, servicesFile, discountsFile, input, allocated, aborted>>

InitHistory == Init /\ store = "history" /\ input = <<>>

NextHistory == \E h \in HistoryRecs : addHistoryEntry(h)

SpecHistory == InitHistory /\ [][NextHistory]_vars

\* ------------------------------------------------------------------------
\* The menus over the files that earlier runs of the program left
\* ------------------------------------------------------------------------

\* viewServices(): ensureDefaultServices(); list = loadServices(); the list
\* is printed
viewServices ==
  /\ Focus("service") /\ ~aborted
  /\ servicesFile' = ensuredServices(servicesFile)
  /\ raw' = (IF Len(loadServices(servicesFile)) # 0 THEN raw ELSE Rewritten("defaults"))
  /\ last' = Called("view", <<>>, loadServices(ensuredServices(servicesFile)), 0)
  /\ UNCHANGED <<store, callers, customersFile, vehiclesFile, discountsFile, historyFile, input, allocated, aborted>>

\* viewDiscounts(): ensureDefaultDiscounts(); list = loadDiscounts(); the
\* list is printed, or "No discounts found."
viewDiscounts ==
  /\ Focus("discount") /\ ~aborted
  /\ discountsFile' = ensuredDiscounts(discountsFile)
  /\ raw' = (IF Len(loadDiscounts(discountsFile)) # 0 THEN raw ELSE Rewritten("defaults"))
  /\ last' = Called("view", <<>>, loadDiscounts(ensuredDiscounts(discountsFile)), 0)
  /\ UNCHANGED <<store, callers, customersFile, vehiclesFile, servicesFile, historyFile, input, allocated, aborted>>

\* two customers with a vehicle each, as two runs of the add flows leave them
ShopCustomers ==
  <<[id |-> 1, name |-> Jo, phone |-> <<"9">>, email |-> <<>>],
    [id |-> 2, name |-> <<"A", "l">>, phone |-> <<"8">>, email |-> <<>>]>>

ShopVehicles ==
  <<[id |-> 1, customerId |-> 1, regNo |-> <<"R">>, model |-> <<"M">>, color |-> <<>>],
    [id |-> 2, customerId |-> 2, regNo |-> <<"S">>, model |-> <<"M">>, color |-> <<>>]>>

\* The program is about to start.  The catalogs are what is left of the
\* defaults after the services 3 to 6 and the discounts 2 and 3 were deleted.
InitShop ==
  /\ store = "boot"
  /\ raw = [by |-> "app", exists |-> FALSE, nl |-> TRUE, lines |-> <<>>]
  /\ customersFile = saveCustomers(ShopCustomers)
  /\ vehiclesFile = saveVehicles(ShopVehicles)
  /\ servicesFile = saveServices(SubSeq(DefaultServices, 1, 2))
  /\ discountsFile = saveDiscounts(SubSeq(DefaultDiscounts, 1, 1))
  /\ historyFile = NoFile
  /\ input = <<>>
  /\ last = [op |-> "init", arg |-> <<>>, ret |-> <<>>, id |-> 0,
             pre |-> NoFile, hand |-> FALSE]
  /\ allocated = {}
  /\ aborted = FALSE
  /\ callers = <<>>

\* the deletes of the catalogs, the views and the booking
NextView ==
  \/ mainStart
  \/ \E id \in 1..MaxId : deleteService(id)
  \/ \E id \in 1..MaxId : deleteDiscount(id)
  \/ viewServices
  \/ viewDiscounts
  \/ /\ Len(FileLines(historyFile)) < MaxBookings
     /\ bookServiceFlow(1, 1, <<1, 2, 7>>, 1)

SpecView == InitShop /\ [][NextView]_vars

\* ------------------------------------------------------------------------
\* Bookings over the files that earlier runs of the program left
\* ------------------------------------------------------------------------

\* the customer ids and vehicle ids typed: 3 is the id of no record
BookIds == {1, 2, 3}

\* the service numbers typed before the closing 0
BookTyped == {<<>>, <<7>>, <<1>>, <<2, 1, 7>>, <<2, 2>>}

\* the discount ids typed
BookDiscounts == {0, 1, -1, 9}

\* a discounts file edited by hand: the lines 1|Jo|10|n and -1|Jo|5|n
HandDiscounts ==
  <<"1", "|", "J", "o", "|", "1", "0", "|", "n", "\n",
    "-", "1", "|", "J", "o", "|", "5", "|", "n", "\n">>

\* The customers and vehicles are on file.  The services are the defaults
\* not written yet or what is left of them; the discounts are what is left
\* of the defaults, or a hand-written file with the ids 1 and -1.
InitBook ==
  /\ store = "history"
  /\ raw = [by |-> "shop", exists |-> FALSE, nl |-> TRUE, lines |-> <<>>]
  /\ customersFile = saveCustomers(ShopCustomers)
  /\ vehiclesFile = saveVehicles(ShopVehicles)
  /\ servicesFile \in {NoFile, saveServices(SubSeq(DefaultServices, 1, 2))}
  /\ discountsFile \in {saveDiscounts(SubSeq(DefaultDiscounts, 1, 1)),
                        Written(HandDiscounts)}
  /\ historyFile = NoFile
  /\ input = <<>>
  /\ last = [op |-> "init", arg |-> <<>>, ret |-> <<>>, id |-> 0,
             pre |-> NoFile, hand |-> FALSE]
  /\ allocated = {}
  /\ aborted = FALSE
  /\ callers = <<>>

\* a run ends with the booking that was refused
NextBook ==
  /\ Len(FileLines(historyFile)) < MaxBookings
  /\ last.op = "init" \/ Len(last.ret) = 1
  /\ \E custId \in BookIds, vehId \in BookIds :
       \E typed \in BookTyped, did \in BookDiscounts :
         bookServiceFlow(custId, vehId, typed, did)

SpecBook == InitBook /\ [][NextBook]_vars

\* ------------------------------------------------------------------------
\* One add on a hand-written file
\* ------------------------------------------------------------------------

\* what the user types at the name prompts of the add
AddNames == {Jo, Piped}

\* what the user types at the price or percent prompt of the add
AddAmounts == {Dec(10), Dec(1234567)}

\* a customers file edited by hand: the lines 1|Jo|9|a and 1|Al|8|
HandCustomers ==
  <<"1", "|", "J", "o", "|", "9", "|", "a", "\n",
    "1", "|", "A", "l", "|", "8", "|", "\n">>

\* the hand-written files of the kinds, and the customers file with an id
\* on two lines
InitAdd ==
  \/ InitEdit
  \/ /\ store = "customer"
     /\ raw = [by |-> "twice", exists |-> TRUE, nl |-> TRUE, lines |-> <<>>]
     /\ customersFile = Written(HandCustomers)
     /\ vehiclesFile = NoFile /\ servicesFile = NoFile
     /\ discountsFile = NoFile /\ historyFile = NoFile
     /\ input = <<>>
     /\ last = [op |-> "init", arg |-> <<>>, ret |-> <<>>, id |-> 0,
                pre |-> NoFile, hand |-> TRUE]
     /\ allocated = {}
     /\ aborted = FALSE
     /\ callers = <<>>

\* the file of the start is written by hand
ByHand == raw.by \in {"hand", "twice"}

NextAdd ==
  \/ ByHand /\ \E name \in AddNames : addCustomerInteractive(name, <<"9">>, <<>>)
  \/ ByHand /\ \E regNo \in AddNames : registerVehicleInteractive(1, regNo, <<"M">>, <<>>)
  \/ ByHand /\ \E name \in AddNames, price \in AddAmounts : addServiceInteractive(name, price)
  \/ ByHand /\ \E name \in AddNames, percent \in AddAmounts : addDiscountInteractive(name, percent, <<"n">>)

SpecAdd == InitAdd /\ [][NextAdd]_vars

\* ------------------------------------------------------------------------
\* Bookings, completions and exits over the files of earlier runs
\* ------------------------------------------------------------------------

\* a vehicles file edited by hand: the lines 1|1|R|M|, 2|2|S|M| and 2|2|T|M|
HandVehicles ==
  <<"1", "|", "1", "|", "R", "|", "M", "|", "\n",
    "2", "|", "2", "|", "S", "|", "M", "|", "\n",
    "2", "|", "2", "|", "T", "|", "M", "|", "\n">>

\* the program is about to start: as InitShop, or with the vehicles file
\* edited by hand
InitExit ==
  /\ store = "boot"
  /\ raw = [by |-> "app", exists |-> FALSE, nl |-> TRUE, lines |-> <<>>]
  /\ customersFile = saveCustomers(ShopCustomers)
  /\ vehiclesFile \in {saveVehicles(ShopVehicles), Written(HandVehicles)}
  /\ servicesFile = saveServices(SubSeq(DefaultServices, 1, 2))
  /\ discountsFile = saveDiscounts(SubSeq(DefaultDiscounts, 1, 1))
  /\ historyFile = NoFile
  /\ input = <<>>
  /\ last = [op |-> "init", arg |-> <<>>, ret |-> <<>>, id |-> 0,
             pre |-> NoFile, hand |-> FALSE]
  /\ allocated = {}
  /\ aborted = FALSE
  /\ callers = <<>>

\* the customer ids typed at the exit prompt: 0 skips
ExitIds == 0..2

NextExit ==
  \/ mainStart
  \/ /\ Len(FileLines(historyFile)) <= MaxBookings
     /\ \E c \in 1..2, did \in {0, 1} : bookServiceFlow(c, c, <<1>>, did)
  \/ \E id \in 1..(MaxBookings + 1) : markHistoryCompleted(id)
  \/ \E cid \in ExitIds : exitFlow(cid)

SpecExit == InitExit /\ [][NextExit]_vars

\* ------------------------------------------------------------------------
\* ensureDefaults and nextId on catalog files whose lines may all be bad
\* ------------------------------------------------------------------------

\* the lines 9|Jo (an id, no price or percent), bad|d, the empty line, and
\* 1|Jo|5|n, which decodes as a service and as a discount
SeedLines ==
  <<<<"9", "|", "J", "o">>,
    <<"b", "a", "d", "|", "d">>,
    <<>>,
    <<"1", "|", "J", "o", "|", "5", "|", "n">>>>

\* a services or discounts file of one to MaxRawLines of these lines
InitSeed ==
  /\ store \in {"service", "discount"}
  /\ \E k \in 1..MaxRawLines : \E lines \in [1..k -> 1..Len(SeedLines)] :
       LET f == Written(Concat([i \in 1..k |-> SeedLines[lines[i]] \o <<"\n">>]))
       IN  /\ servicesFile = (IF store = "service" THEN f ELSE NoFile)
           /\ discountsFile = (IF store = "discount" THEN f ELSE NoFile)
  /\ raw = [by |-> "seed", exists |-> TRUE, nl |-> TRUE, lines |-> <<>>]
  /\ customersFile = NoFile /\ vehiclesFile = NoFile /\ historyFile = NoFile
  /\ input = <<>>
  /\ last = [op |-> "init", arg |-> <<>>, ret |-> <<>>, id |-> 0,
             pre |-> NoFile, hand |-> FALSE]
  /\ allocated = {}
  /\ aborted = FALSE
  /\ callers = <<>>

NextSeed ==
  \/ ensureDefaultServices
  \/ ensureDefaultDiscounts
  \/ Call_nextServiceId
  \/ Call_nextDiscountId

SpecSeed == InitSeed /\ [][NextSeed]_vars

\* ------------------------------------------------------------------------
\* Vocabulary of the properties
\* ------------------------------------------------------------------------
\* the four stores that collect the list into a map keyed by id
MapKinds == {"customer", "vehicle", "service", "discount"}

\* the id of a record of the run's kind
IdOf(rec) == IF store = "history" THEN rec.historyId ELSE rec.id

\* what loadAll() returns on the file as it is now
Loaded ==
  CASE store = "customer" -> loadCustomers(customersFile)
    [] store = "vehicle"  -> loadVehicles(vehiclesFile)
    [] store = "service"  -> loadServices(servicesFile)
    [] store = "discount" -> loadDiscounts(discountsFile)
    [] store = "history"  -> loadHistory(historyFile)

\* the string fields and the decimal fields of a record of the run's kind
StringsOf(rec) ==
  CASE store = "customer" -> <<rec.name, rec.phone, rec.email>>
    [] store = "vehicle"  -> <<rec.regNo, rec.model, rec.color>>
    [] store = "service"  -> <<rec.name>>
    [] store = "discount" -> <<rec.name, rec.note>>
    [] store = "history"  -> <<rec.dateTime, rec.status>>

DecimalsOf(rec) ==
  CASE store = "customer" -> <<>>
    [] store = "vehicle"  -> <<>>
    [] store = "service"  -> <<rec.price>>
    [] store = "discount" -> <<rec.percent>>
    [] store = "history"  -> <<rec.subtotal, rec.discountPercent, rec.total>>

\* no '|' and no newline in the string
NoSeparator(s) == \A i \in 1..Len(s) : s[i] \notin {"|", "\n"}

NoSeparators(L) ==
  \A i \in 1..Len(L) :
    \A k \in 1..Len(StringsOf(L[i])) : NoSeparator(StringsOf(L[i])[k])

\* the decimal has at most six significant digits
SixDigits(d) == NumDigits(Abs(d.m)) <= 6

AllSixDigits(L) ==
  \A i \in 1..Len(L) :
    \A k \in 1..Len(DecimalsOf(L[i])) : SixDigits(DecimalsOf(L[i])[k])

DistinctIds(L) ==
  \A i \in 1..Len(L) : \A j \in 1..Len(L) : IdOf(L[i]) = IdOf(L[j]) => i = j

StrictlyAscending(L) ==
  \A i \in 1..Len(L) : \A j \in 1..Len(L) : i < j => IdOf(L[i]) < IdOf(L[j])

\* the index of the first element of L with the id
FirstIndex(L, id) == CHOOSE i \in 1..Len(L) :
  IdOf(L[i]) = id /\ \A j \in 1..(i - 1) : IdOf(L[j]) # id

\* R holds exactly one record for each id of L, the first element of L with it
FirstOccurrences(L, R) ==
  /\ \A i \in 1..Len(L) :
       Cardinality({j \in 1..Len(R) : IdOf(R[j]) = IdOf(L[i])}) = 1
  /\ \A j \in 1..Len(R) :
       /\ \E i \in 1..Len(L) : IdOf(L[i]) = IdOf(R[j])
       /\ R[j] = L[FirstIndex(L, IdOf(R[j]))]

\* ------------------------------------------------------------------------
\* Properties
\* ------------------------------------------------------------------------

\* C1 as stated: in the four map stores, after saveAll(L) for any list L,
\* loadAll() holds exactly one record for each id of L, and it carries the
\* fields of the first element of L with that id.
C1_FirstOccurrenceAnyList ==
  (last.op = "save" /\ store \in MapKinds) => FirstOccurrences(last.arg, Loaded)

\* C1 amended: in the four map stores, after saveAll(L) for a list L whose
\* strings hold no '|' or newline and whose decimals have at most six
\* significant digits, loadAll() holds exactly one record for each id of L,
\* and it carries the fields of the first element of L with that id.
C1_FirstOccurrenceWins ==
  (last.op = "save" /\ store \in MapKinds
     /\ NoSeparators(last.arg) /\ AllSixDigits(last.arg))
  => FirstOccurrences(last.arg, Loaded)

\* a list with two different records of one id has been saved, and the file
\* holds the first of them
C1_Witness ==
  /\ last.op = "save" /\ store \in MapKinds
  /\ NoSeparators(last.arg) /\ AllSixDigits(last.arg)
  /\ \E i \in 1..Len(last.arg) : \E j \in 1..Len(last.arg) :
       /\ i < j /\ last.arg[i].id = last.arg[j].id /\ last.arg[i] # last.arg[j]
       /\ \E k \in 1..Len(Loaded) : Loaded[k] = last.arg[i]

\* C2: saveHistory deduplicates by historyId, keeping the first occurrence
\* in input order, and writes the remaining records in ascending historyId
\* order, as the four map stores do.
C2_HistoryDedupSorted ==
  (last.op = "save" /\ store = "history"
     /\ NoSeparators(last.arg) /\ AllSixDigits(last.arg))
  => /\ FirstOccurrences(last.arg, Loaded)
     /\ StrictlyAscending(Loaded)

\* the ids that parse at the head of the hand-written lines of the file
ParsedIds ==
  {RawLines(store)[raw.lines[i]].id :
     i \in {k \in 1..Len(raw.lines) : RawLines(store)[raw.lines[k]].idok}}

\* the largest element of a non-empty set of integers
MaxOf(S) == CHOOSE m \in S : \A x \in S : x <= m

C4_IdsNeverReused ==
  [][last'.op = "add" => \A a \in allocated : last'.id > a]_vars

\* the leading id of each line of a file, as nextId() reads it
IdsOfLines(lines) ==
  [i \in 1..Len(lines) |-> stoi(Field(GetLines(lines[i], "|"), 1)).val]

LineIds(f) == IdsOfLines(FileLines(f))

\* C5: in the four map stores, saveAll(L) writes the lines in ascending id
\* order whatever the order of L, so the loadAll() that follows returns
\* its records in strictly increasing id order.
C5_SavedAscending ==
  (last.op = "save" /\ store \in MapKinds)
  => /\ StrictlyAscending(Loaded)
     /\ LET ids == LineIds(FileOf(store))
        IN  \A i \in 1..Len(ids) : \A j \in 1..Len(ids) : i < j => ids[i] < ids[j]

\* a list given in descending id order has been saved and comes back
\* ascending
C5_Witness ==
  /\ last.op = "save" /\ store \in MapKinds
  /\ Len(last.arg) >= 2 /\ last.arg[1].id > last.arg[2].id
  /\ Len(Loaded) >= 2 /\ Loaded[1].id = last.arg[2].id
  /\ StrictlyAscending(Loaded)

\* the file holds one line for each record of L and loadAll() returns
\* records equal field by field to those of L
RoundTrip(L) ==
  /\ Len(FileLines(FileOf(store))) = Len(L)
  /\ Len(Loaded) = Len(L)
  /\ \A i \in 1..Len(L) : \E j \in 1..Len(Loaded) : Loaded[j] = L[i]

\* C6 as stated: for every kind, after saveAll(L) for a list L with distinct
\* ids and strings free of '|' and newline, the file holds the records of L
\* and nothing of its previous content, and loadAll() returns records equal
\* field by field to those of L, empty strings and zero decimals included.
C6_RoundTripAnyDecimal ==
  (last.op = "save" /\ DistinctIds(last.arg) /\ NoSeparators(last.arg))
  => RoundTrip(last.arg)

\* C6 amended: the same, for lists whose decimal fields have at most six
\* significant digits.
C6_RoundTrip ==
  (last.op = "save" /\ DistinctIds(last.arg) /\ NoSeparators(last.arg)
     /\ AllSixDigits(last.arg))
  => RoundTrip(last.arg)

\* a list with an empty string, over a file that held a line before, has
\* been saved and read back
C6_Witness ==
  /\ last.op = "save" /\ DistinctIds(last.arg) /\ NoSeparators(last.arg)
  /\ AllSixDigits(last.arg)
  /\ Len(last.pre.data) > 0
  /\ Len(last.arg) >= 2
  /\ \E i \in 1..Len(last.arg) :
       /\ StringsOf(last.arg[i])[1] = <<>>
       /\ \A k \in 1..Len(DecimalsOf(last.arg[i])) : DecimalsOf(last.arg[i])[k].m = 0
  /\ RoundTrip(last.arg)

RECURSIVE Expected(_)
Expected(lines) ==
  IF Len(lines) = 0 THEN <<>>
  ELSE LET ln == RawLines(store)[Head(lines)]
       IN  (IF ln.ok THEN <<ln.rec>> ELSE <<>>) \o Expected(Tail(lines))

\* C8: for every kind, loadAll() skips the blank lines and the lines that
\* do not decode, and returns the records of all other lines in file order:
\* a bad line never makes the lines after it rejected.
C8_BadLinesSkipped ==
  (last.op = "load" /\ last.hand) => last.ret = Expected(raw.lines)

\* the file of the test, a valid line, a line with an empty name and the
\* line 'bad|d', followed by one more valid line, has been loaded: the lines
\* around the bad one are kept
C8_Witness ==
  /\ last.op = "load" /\ last.hand /\ store = "customer"
  /\ Len(raw.lines) = 3
  /\ raw.lines[1] = 2 /\ raw.lines[2] = 3 /\ raw.lines[3] = 1
  /\ Len(last.ret) = 2
  /\ last.ret[1].id = 2 /\ last.ret[1].name = <<>>
  /\ last.ret[2].id = 1 /\ last.ret[2].name = Jo

\* the number of '|'-separated fields of a line
FieldCount(text) == 1 + Cardinality({i \in 1..Len(text) : text[i] = "|"})

\* the number of fields of the schema of the run's kind, the position of the
\* last numeric field, and the positions of the string fields
SchemaFields ==
  CASE store = "customer" -> 4
    [] store = "vehicle"  -> 5
    [] store = "service"  -> 3
    [] store = "discount" -> 4
    [] store = "history"  -> 10

LastNumeric ==
  CASE store = "customer" -> 1
    [] store = "vehicle"  -> 2
    [] store = "service"  -> 3
    [] store = "discount" -> 3
    [] store = "history"  -> 9

StringAt(rec) ==
  CASE store = "customer" -> (2 :> rec.name) @@ (3 :> rec.phone) @@ (4 :> rec.email)
    [] store = "vehicle"  -> (3 :> rec.regNo) @@ (4 :> rec.model) @@ (5 :> rec.color)
    [] store = "service"  -> (2 :> rec.name)
    [] store = "discount" -> (2 :> rec.name) @@ (4 :> rec.note)
    [] store = "history"  -> (5 :> rec.dateTime) @@ (10 :> rec.status)

\* every numeric field of the schema is on the line and parses
NumbersParse(text) ==
  LET t == GetLines(text, "|")
  IN  CASE store = "customer" -> TRUE
        [] store = "vehicle"  -> stoi(Field(t, 2)).ok
        [] store = "service"  -> stod(Field(t, 3)).ok
        [] store = "discount" -> stod(Field(t, 3)).ok
        [] store = "history"  ->
             /\ stoi(Field(t, 2)).ok /\ stoi(Field(t, 3)).ok
             /\ ParseServiceIds(GetLines(Field(t, 4), ",")).ok
             /\ stod(Field(t, 6)).ok /\ stoi(Field(t, 7)).ok
             /\ stod(Field(t, 8)).ok /\ stod(Field(t, 9)).ok

\* the file is one hand-written line with fewer fields than the schema, and
\* its id parses
ShortLineFile ==
  /\ last.hand /\ Len(raw.lines) = 1
  /\ LET ln == RawLines(store)[raw.lines[1]]
     IN  /\ Len(ln.text) > 0
         /\ FieldCount(ln.text) < SchemaFields
         /\ ln.idok

\* the load returned the one record of the line, its missing strings empty
ShortLineLoaded ==
  LET ln == RawLines(store)[raw.lines[1]]
  IN  /\ Len(last.ret) = 1
      /\ IdOf(last.ret[1]) = ln.id
      /\ \A p \in DOMAIN StringAt(last.ret[1]) :
           p > FieldCount(ln.text) => StringAt(last.ret[1])[p] = <<>>

\* C9 as stated: for every kind, a line with fewer fields than the schema
\* is loaded, not skipped, when its id parses, and its missing trailing
\* fields are empty.
C9_ShortLineAlwaysLoaded ==
  (last.op = "load" /\ ShortLineFile) => ShortLineLoaded

\* C9 amended: a line with fewer fields than the schema, whose id parses,
\* is loaded with its missing trailing strings empty when every numeric
\* field of the schema is on the line and parses (Customer always, Vehicle
\* from customerId on, Discount from percent on, HistoryEntry with only the
\* status missing), and is skipped otherwise, in particular when a numeric
\* field is missing (ServiceItem always: the price is its last field).
C9_ShortLineLoadedIfNumbersPresent ==
  (last.op = "load" /\ ShortLineFile)
  => LET text == RawLines(store)[raw.lines[1]].text
     IN  /\ IF NumbersParse(text) THEN ShortLineLoaded ELSE last.ret = <<>>
         /\ FieldCount(text) < LastNumeric => last.ret = <<>>

\* the discount line '3|Jo|15', without its note, has been loaded
C9_Witness ==
  /\ last.op = "load" /\ ShortLineFile /\ store = "discount"
  /\ FieldCount(RawLines(store)[raw.lines[1]].text) = 3
  /\ ShortLineLoaded
  /\ last.ret[1].percent = Dec(15) /\ last.ret[1].note = <<>>

\* C10: a missing file behaves as an empty one: loadAll() returns the empty
\* list and nextId() returns 1, no error is raised, and neither call creates
\* or changes the file.
C10_MissingFileIsEmpty ==
  (last.op \in {"load", "nextId", "trap"}
     /\ (~last.pre.exists \/ Len(last.pre.data) = 0))
  => /\ last.op = "load" => last.ret = <<>>
     /\ last.op # "load" => (last.op = "nextId" /\ last.id = 1)
     /\ ~aborted
     /\ FileOf(store) = last.pre

\* loadAll() has run on a missing file, and the file is still missing
C10_Witness ==
  /\ last.op = "load" /\ ~last.pre.exists
  /\ last.ret = <<>>
  /\ ~FileOf(store).exists

\* the records of L with another id than d are all in R, fields unchanged,
\* and R holds no record with id d
DeletedFrom(L, d, R) ==
  /\ \A j \in 1..Len(R) : IdOf(R[j]) # d
  /\ \A i \in 1..Len(L) : IdOf(L[i]) # d => \E j \in 1..Len(R) : R[j] = L[i]

\* C11 as stated: after the delete protocol (loadAll, filter out id d,
\* saveAll), loadAll() holds no record with id d and holds every other
\* record loaded before with all its fields unchanged.
C11_DeleteKeepsOthersAnyFile ==
  last.op = "delete" => DeletedFrom(last.arg, last.id, Loaded)

\* C11 amended: the same, when the records loaded before have distinct ids
\* and decimals of at most six significant digits (as in a file written by
\* the store's save function).
C11_DeleteKeepsOthers ==
  (last.op = "delete" /\ DistinctIds(last.arg) /\ AllSixDigits(last.arg))
  => DeletedFrom(last.arg, last.id, Loaded)

\* a record has been deleted from a file of two records or more, and the
\* others are still there
C11_Witness ==
  /\ last.op = "delete" /\ DistinctIds(last.arg) /\ AllSixDigits(last.arg)
  /\ Len(last.arg) >= 2
  /\ \E i \in 1..Len(last.arg) : IdOf(last.arg[i]) = last.id
  /\ Len(Loaded) = Len(last.arg) - 1
  /\ DeletedFrom(last.arg, last.id, Loaded)

\* the catalog of the six services: id, name, price
CanonicalServices ==
  <<<<1, <<"O", "i", "l", " ", "C", "h", "a", "n", "g", "e">>, [m |-> 12, e |-> 2]>>,
    <<2, <<"B", "r", "a", "k", "e", " ", "I", "n", "s", "p", "e", "c", "t", "i", "o", "n">>, [m |-> 8, e |-> 2]>>,
    <<3, <<"W", "h", "e", "e", "l", " ", "A", "l", "i", "g", "n", "m", "e", "n", "t">>, [m |-> 6, e |-> 2]>>,
    <<4, <<"C", "a", "r", " ", "W", "a", "s", "h">>, [m |-> 5, e |-> 2]>>,
    <<5, <<"E", "n", "g", "i", "n", "e", " ", "T", "u", "n", "e", "-", "u", "p">>, [m |-> 2, e |-> 3]>>,
    <<6, <<"G", "e", "n", "e", "r", "a", "l", " ", "S", "e", "r", "v", "i", "c", "e">>, [m |-> 15, e |-> 2]>>>>

\* the catalog of the three discounts: id, name, percent
CanonicalDiscounts ==
  <<<<1, <<"N", "e", "w", " ", "Y", "e", "a", "r", " ", "O", "f", "f", "e", "r">>, [m |-> 1, e |-> 1]>>,
    <<2, <<"D", "i", "w", "a", "l", "i", " ", "S", "p", "e", "c", "i", "a", "l">>, [m |-> 15, e |-> 0]>>,
    <<3, <<"S", "u", "m", "m", "e", "r", " ", "S", "a", "l", "e">>, [m |-> 5, e |-> 0]>>>>

\* the store holds the catalog, record by record, in order
HoldsCatalog ==
  IF store = "service"
  THEN /\ Len(Loaded) = Len(CanonicalServices)
       /\ \A i \in 1..Len(Loaded) :
            <<Loaded[i].id, Loaded[i].name, Loaded[i].price>> = CanonicalServices[i]
  ELSE /\ Len(Loaded) = Len(CanonicalDiscounts)
       /\ \A i \in 1..Len(Loaded) :
            <<Loaded[i].id, Loaded[i].name, Loaded[i].percent>> = CanonicalDiscounts[i]

\* C12: ensureDefaults on a store whose loadAll() is empty leaves the store
\* holding exactly the catalog in order, six services and three discounts,
\* with ids from 1 on, strictly increasing.
C12_DefaultsSeeded ==
  (last.op = "defaults" /\ last.arg = <<>>)
  => /\ HoldsCatalog
     /\ StrictlyAscending(Loaded)
     /\ Len(FileLines(FileOf(store))) = Len(Loaded)

\* the defaults have been written over a file whose lines do not decode
C12_Witness ==
  /\ last.op = "defaults" /\ last.arg = <<>>
  /\ store = "service"
  /\ Len(last.pre.data) > 0
  /\ Len(Loaded) = 6 /\ Loaded[1].id = 1 /\ Loaded[6].id = 6

\* C13: ensureDefaults on a store whose loadAll() returns at least one record
\* adds, changes and removes nothing: the file is left as it was, so a second
\* call in a row never duplicates rows.
C13_DefaultsNoOp ==
  (last.op = "defaults" /\ last.arg # <<>>)
  => (FileOf(store) = last.pre /\ Loaded = last.arg)

\* ensureDefaults has run on a hand-written file of which one line decodes
C13_Witness ==
  /\ last.op = "defaults" /\ Len(last.arg) = 1
  /\ raw.by = "hand" /\ Len(raw.lines) >= 2
  /\ FileOf(store) = last.pre

\* the serviceIds slot of a history line
SlotOf(ln) == Field(GetLines(ln, "|"), 4)

\* C14: a history record with serviceIds = [1,2] is written with the slot
\* '1,2', one with serviceIds = [] with an empty slot, and the list read back
\* by loadHistory is the list saved, in the same order, for every list.
C14_ServiceIdsRoundTrip ==
  (store = "history" /\ last.op = "save")
  => LET lines == FileLines(historyFile)
     IN  /\ Len(lines) = Len(last.arg)
         /\ \A i \in 1..Len(last.arg) :
              /\ last.arg[i].serviceIds = <<1, 2>> => SlotOf(lines[i]) = <<"1", ",", "2">>
              /\ last.arg[i].serviceIds = <<>> => SlotOf(lines[i]) = <<>>
         /\ NoSeparators(last.arg) => Len(Loaded) = Len(last.arg)
         /\ Len(Loaded) = Len(last.arg)
            => \A i \in 1..Len(Loaded) : Loaded[i].serviceIds = last.arg[i].serviceIds

\* three service ids, not in ascending order, have been saved and read back
C14_Witness ==
  /\ store = "history" /\ last.op = "save" /\ Len(last.arg) = 1
  /\ Len(last.arg[1].serviceIds) = 3
  /\ last.arg[1].serviceIds[1] > last.arg[1].serviceIds[2]
  /\ last.arg[1].serviceIds[3] < 0
  /\ Len(Loaded) = 1 /\ Loaded[1].serviceIds = last.arg[1].serviceIds

\* the ids of the records of a list
IdsOf(L) == {IdOf(L[i]) : i \in 1..Len(L)}

\* C16: the numeric id is the only uniqueness key and it is enforced only by
\* the save: the save of any list, duplicate ids included, is carried out and
\* writes one line per id; records that agree on non-id fields and differ in
\* the id are all persisted and all returned by loadAll().
C16_IdIsOnlyKey ==
  (last.op = "save" /\ store \in MapKinds)
  => /\ ~aborted
     /\ Len(FileLines(FileOf(store))) = Cardinality(IdsOf(last.arg))
     /\ NoSeparators(last.arg)
        => /\ IdsOf(Loaded) = IdsOf(last.arg)
           /\ \A i \in {k \in 1..Len(last.arg) : FirstIndex(last.arg, IdOf(last.arg[k])) = k} :
                \E j \in 1..Len(Loaded) :
                   /\ IdOf(Loaded[j]) = IdOf(last.arg[i])
                   /\ StringsOf(Loaded[j]) = StringsOf(last.arg[i])

\* two vehicles with the ids 1 and 2 and the same regNo, and a second record
\* with the id 1, have been saved: the two vehicles are loaded
C16_Witness ==
  /\ last.op = "save" /\ store = "vehicle"
  /\ Len(last.arg) = 3 /\ ~DistinctIds(last.arg)
  /\ Len(Loaded) = 2
  /\ Loaded[1].id = 1 /\ Loaded[2].id = 2
  /\ Loaded[1].regNo = Loaded[2].regNo /\ Len(Loaded[1].regNo) > 0

\* the non-empty tokens of the slot of the hand-written history line
SlotNonEmpty ==
  SelectSeq([i \in 1..Len(raw.lines) |-> SlotTokens[raw.lines[i]]],
            LAMBDA t : t.text # <<>>)

\* loadHistory has returned the one record of the file, with the values of
\* the non-empty tokens as its service ids
SlotDecoded ==
  /\ Len(last.ret) = 1
  /\ last.ret[1].historyId = 7
  /\ last.ret[1].serviceIds = [i \in 1..Len(SlotNonEmpty) |-> SlotNonEmpty[i].val]

\* C19: empty tokens between the commas of the slot are dropped, a token that
\* is not a numeral makes loadHistory skip the line, and the numerals are
\* decoded in order.
C19_NonNumericTokenSkips ==
  (raw.by = "slot" /\ last.op = "load")
  => IF \E i \in 1..Len(SlotNonEmpty) : ~SlotNonEmpty[i].numeric
     THEN last.ret = <<>>
     ELSE (\A i \in 1..Len(SlotNonEmpty) : SlotNonEmpty[i].parses) => SlotDecoded

\* C20: when the user enters 0 as the new price of an existing service,
\* updateService keeps the stored price: the price of the service after the
\* update is its price before.
C20_ZeroPriceKeepsPrice ==
  (last.op = "update" /\ last.ret[2] = <<"0">>
     /\ \E i \in 1..Len(last.arg) : last.arg[i].id = last.id)
  => \E j \in 1..Len(Loaded) :
        /\ Loaded[j].id = last.id
        /\ Loaded[j].price = last.arg[FirstIndex(last.arg, last.id)].price

\* no two lines of the file have the same leading id
NoRepeat(ids) ==
  \A i \in 1..Len(ids) : \A j \in 1..Len(ids) : i # j => ids[i] # ids[j]

DistinctLineIds(f) == NoRepeat(LineIds(f))

\* C15: after any sequence of the flows of the application from empty or
\* missing files, no file, the history file included, has two lines with the
\* same id.
C15_FileIdsUnique ==
  /\ DistinctLineIds(customersFile)
  /\ DistinctLineIds(vehiclesFile)
  /\ DistinctLineIds(servicesFile)
  /\ DistinctLineIds(discountsFile)
  /\ DistinctLineIds(historyFile)

\* two bookings are in the history file, one of them completed, next to the
\* default catalogs
C15_Witness ==
  /\ LineIds(historyFile) = <<1, 2>>
  /\ Len(LineIds(servicesFile)) = 6
  /\ LET list == loadHistory(historyFile)
     IN  Len(list) = 2 /\ list[1].status = Completed /\ list[2].status = Pending

\* the record a process adds
NewRecordOf(p) == IF store = "customer" THEN CustomerOf(p) ELSE HistoryOf(p)

\* the list holds the record
Holds(list, rec) == \E i \in 1..Len(list) : list[i] = rec

\* what the save function writes for the list
SavedAs(list) == IF store = "customer" THEN saveCustomers(list) ELSE saveHistory(list)

\* C17: two processes that are both between nextCustomerId() and
\* saveCustomers() of the add flow hold the same id: the scan of the second
\* one sees the file that the first one has not written yet.
C17_SameIdBeforeSave ==
  \A p \in RaceCallers : \A q \in RaceCallers :
    (store = "customer" /\ callers[p].pc = "named" /\ callers[q].pc = "named")
      => callers[p].id = callers[q].id

\* both processes hold the id that follows the records on file
C17_Witness ==
  /\ store = "customer"
  /\ callers[1].pc = "named" /\ callers[2].pc = "named"
  /\ callers[1].id = callers[2].id
  /\ Len(callers[1].list) > 0 /\ callers[1].id > 1

\* C18: once both processes have saved, the file is exactly what the second
\* writer saved, the list it had loaded with its own record, and holds the
\* record of the first writer only if the second writer had loaded it.
C18_LastWriterWins ==
  \A q \in RaceCallers : callers[q].saved = 2 =>
    /\ FileOf(store) = SavedAs(Append(callers[q].list, NewRecordOf(q)))
    /\ \A p \in RaceCallers \ {q} :
         Holds(Loaded, NewRecordOf(p)) => Holds(callers[q].list, NewRecordOf(p))

\* the record of the first writer is gone although the two ids differ
C18_Witness ==
  \E q \in RaceCallers : \E p \in RaceCallers \ {q} :
    /\ callers[q].saved = 2 /\ callers[p].saved = 1
    /\ callers[p].id # callers[q].id
    /\ ~Holds(Loaded, NewRecordOf(p))
    /\ Holds(Loaded, NewRecordOf(q))

ServicesObserved == viewServices \/ bookServiceFlow(1, 1, <<1, 2, 7>>, 1)

DiscountsObserved == viewDiscounts \/ bookServiceFlow(1, 1, <<1, 2, 7>>, 1)

\* C22: viewServices, viewDiscounts and bookServiceFlow ensure the defaults
\* before they read, so the catalog they load is never empty: when no
\* service (no discount) is left on file, the view or booking leaves exactly
\* the canonical defaults on file, and a catalog that is not empty is left
\* as it is.
C22_CatalogNeverEmpty ==
  [][/\ ServicesObserved =>
          /\ Len(loadServices(servicesFile')) > 0
          /\ Len(loadServices(servicesFile)) = 0
               => loadServices(servicesFile') = DefaultServices
          /\ Len(loadServices(servicesFile)) # 0 => servicesFile' = servicesFile
     /\ DiscountsObserved =>
          /\ Len(loadDiscounts(discountsFile')) > 0
          /\ Len(loadDiscounts(discountsFile)) = 0
               => loadDiscounts(discountsFile') = DefaultDiscounts
          /\ Len(loadDiscounts(discountsFile)) # 0 => discountsFile' = discountsFile
    ]_vars

\* the two services and the discount of the start were deleted and the six
\* services and three discounts are on file again, with a booking made
C22_Witness ==
  /\ store = "menu"
  /\ loadServices(servicesFile) = DefaultServices
  /\ loadDiscounts(discountsFile) = DefaultDiscounts
  /\ Len(loadHistory(historyFile)) > 0

\* the entry that the booking made
Booked == last.ret[1]

\* the discounts that the booking loaded
BookDiscountList == loadDiscounts(discountsFile)

\* the discount part of C23 for the id typed
DiscountRecorded(did) ==
  /\ Booked.discountId = -1 <=> (did = 0 \/ FindById(BookDiscountList, did) = 0)
  /\ Booked.discountId = -1 =>
       /\ Booked.discountPercent = Dec(0)
       /\ Booked.total = Booked.subtotal
  /\ Booked.discountId # -1 =>
       /\ FindById(BookDiscountList, Booked.discountId) # 0
       /\ Booked.discountPercent =
            BookDiscountList[FindById(BookDiscountList, Booked.discountId)].percent

Bookable(asked) ==
  /\ FindById(loadCustomers(customersFile), asked.custId) # 0
  /\ \E i \in 1..Len(loadVehicles(vehiclesFile)) :
       /\ loadVehicles(vehiclesFile)[i].id = asked.vehId
       /\ loadVehicles(vehiclesFile)[i].customerId = asked.custId
  /\ \E k \in 1..Len(asked.typed) :
       FindById(loadServices(servicesFile), asked.typed[k]) # 0

\* C25: bookServiceFlow appends an entry only when the customer exists, a
\* vehicle with the id typed belongs to the customer and a service typed is
\* in the catalog; otherwise the history file is what it was.  The entry is
\* 'Pending', its historyId is nextHistoryId() and its serviceIds are all in
\* the catalog loaded by the booking.
C25_BookingGuarded ==
  last.op = "book" =>
    IF Bookable(last.arg)
    THEN /\ Len(last.ret) = 1
         /\ Loaded = Append(loadHistory(last.pre), Booked)
         /\ Booked.status = Pending
         /\ \E o \in nextHistoryId(last.pre) : ~o.trap /\ Booked.historyId = o.val
         /\ Booked.customerId = last.arg.custId
         /\ Booked.vehicleId = last.arg.vehId
         /\ Len(Booked.serviceIds) > 0
         /\ \A k \in 1..Len(Booked.serviceIds) :
              FindById(loadServices(servicesFile), Booked.serviceIds[k]) # 0
    ELSE /\ Len(last.ret) = 0
         /\ historyFile = last.pre

\* a booking of the services 2 and 1, where 7 was typed too
C25_Witness ==
  /\ last.op = "book" /\ Bookable(last.arg)
  /\ last.arg.typed = <<2, 1, 7>>
  /\ Booked.serviceIds = <<2, 1>>
  /\ Booked.historyId = 1
  /\ Len(Loaded) = 1 /\ Loaded[1].status = Pending

\* a booking for a vehicle of another customer has been refused
C25_Refused ==
  /\ last.op = "book" /\ ~Bookable(last.arg)
  /\ last.arg.custId = 1 /\ last.arg.vehId = 2 /\ last.arg.typed = <<1>>
  /\ historyFile = NoFile

\* the id handed to the add is the id of no record loaded
FreshId == \A i \in 1..Len(last.arg) : IdOf(last.arg[i]) # last.id

\* the new record and every record loaded before are in the store
AddedAndKept ==
  /\ Holds(Loaded, last.ret[1])
  /\ \A i \in 1..Len(last.arg) : Holds(Loaded, last.arg[i])

HasPending(cid) ==
  \E i \in 1..Len(loadHistory(historyFile)) :
    /\ loadHistory(historyFile)[i].customerId = cid
    /\ loadHistory(historyFile)[i].status = Pending

\* after the step the customer has no pending entry, no vehicle and no record
GoneAfter(cid) ==
  /\ \A i \in 1..Len(loadHistory(historyFile')) :
       loadHistory(historyFile')[i].customerId = cid
         => loadHistory(historyFile')[i].status # Pending
  /\ \A i \in 1..Len(loadVehicles(vehiclesFile')) :
       loadVehicles(vehiclesFile')[i].customerId # cid
  /\ FindById(loadCustomers(customersFile'), cid) = 0

\* after the step the records of the other customers are what they were
OthersKept(cid) ==
  /\ Len(loadHistory(historyFile')) = Len(loadHistory(historyFile))
  /\ \A i \in 1..Len(loadHistory(historyFile)) :
       loadHistory(historyFile)[i].customerId # cid
         => loadHistory(historyFile')[i] = loadHistory(historyFile)[i]
  /\ \A i \in 1..Len(loadVehicles(vehiclesFile)) :
       loadVehicles(vehiclesFile)[i].customerId # cid
         => Holds(loadVehicles(vehiclesFile'), loadVehicles(vehiclesFile)[i])
  /\ \A i \in 1..Len(loadCustomers(customersFile)) :
       loadCustomers(customersFile)[i].id # cid
         => Holds(loadCustomers(customersFile'), loadCustomers(customersFile)[i])

FilesKept ==
  /\ customersFile' = customersFile
  /\ vehiclesFile' = vehiclesFile
  /\ historyFile' = historyFile

StatusStep(H, G) ==
  /\ Len(G) >= Len(H)
  /\ \A i \in 1..Len(H) :
       \/ G[i] = H[i]
       \/ H[i].status = Pending /\ G[i] = [H[i] EXCEPT !.status = Completed]
  /\ \A i \in (Len(H) + 1)..Len(G) : G[i].status = Pending

\* C27: the status of a history entry is monotone.  An entry starts
\* 'Pending'; the only change any step makes is Pending to Completed; a
\* Completed entry never becomes Pending again and its other fields never
\* change.
C27_StatusMonotone ==
  [][StatusStep(loadHistory(historyFile), loadHistory(historyFile'))]_vars

\* markHistoryCompleted has completed the first of two entries of a
\* customer, who is still on file
C27_Witness ==
  /\ store = "menu"
  /\ Len(loadHistory(historyFile)) = 2
  /\ loadHistory(historyFile)[1].status = Completed
  /\ loadHistory(historyFile)[2].status = Pending
  /\ loadHistory(historyFile)[1].customerId = loadHistory(historyFile)[2].customerId
  /\ FindById(loadCustomers(customersFile), loadHistory(historyFile)[1].customerId) # 0

\* the file that the save function of the run's kind writes for the list
SavedList(list) ==
  CASE store = "customer" -> saveCustomers(list)
    [] store = "vehicle"  -> saveVehicles(list)
    [] store = "service"  -> saveServices(list)
    [] store = "discount" -> saveDiscounts(list)
    [] store = "history"  -> saveHistory(list)

\* no record loaded has the id typed
NotFound == \A i \in 1..Len(last.arg) : IdOf(last.arg[i]) # last.id

\* C28: a delete with an id of no loaded record does not save, and the file
\* is exactly what it was, malformed and duplicate lines included (a
\* missing file is still missing); a delete that finds the id rewrites the
\* whole file from the records kept.
C28_DeleteNotFoundKeepsFile ==
  last.op = "delete" =>
    IF NotFound
    THEN FileOf(store) = last.pre
    ELSE FileOf(store) = SavedList(RemoveIf(last.arg, last.id))

\* a delete has found no record in a hand-written file that holds a line
\* twice and a malformed line, and the three lines are in place
C28_Witness ==
  /\ last.op = "delete" /\ NotFound /\ raw.by = "hand"
  /\ Len(raw.lines) = 3
  /\ raw.lines[1] = raw.lines[2]
  /\ RawLines(store)[raw.lines[1]].ok
  /\ ~RawLines(store)[raw.lines[3]].idok
  /\ Len(last.arg) = 2
  /\ FileOf(store) = last.pre
  /\ Len(FileLines(FileOf(store))) = 3

\* the defaults of the run's catalog
DefaultsOfStore == IF store = "service" THEN DefaultServices ELSE DefaultDiscounts

\* what nextId() of the run's catalog returns on the file as it is now
NextIdOfStore ==
  IF store = "service" THEN nextServiceId(servicesFile)
  ELSE nextDiscountId(discountsFile)

C30_NextIdAboveLargest ==
  (last.op \in {"nextId", "trap"} /\ last.hand) =>
    /\ last.op = "nextId"
    /\ \A k \in ParsedIds : last.id > k
====
